---- MODULE Spec2Model ----
(***************************************************************************)
(* Voice Intake Pipeline of services/ai (app/workflows/voice_processing.py) *)
(* as a state machine: one action per graph node, the node's collaborator   *)
(* calls recorded in order in `calls`, the executed nodes in `trace`.       *)
(* Confidences are percentages: 0.85 is 85, 0.50 is 50, 0.3 is 30.          *)
(* A second specification, InvoiceSpec, runs the Invoice Draft Generator    *)
(* (app/services/invoice_extraction.py) on the same variables; MatcherSpec   *)
(* applies its catalog matcher alone, SupportSpec runs the Support Router   *)
(* (app/workflows/support_bot.py), PhoneSpec the phone-number normalizer   *)
(* (apps/web/scripts/parse-gas-pdf.py), ConfirmationSpec the formatting of  *)
(* the confirmation message and ConcurrentSpec two interleaved runs of the  *)
(* pipeline.                                                                *)
(***************************************************************************)
EXTENDS Integers, Sequences, FiniteSets, TLC

VARIABLES pc, state, calls, trace

vars == <<pc, state, calls, trace>>

(***************************************************************************)
(* Optional values (Python's None) and truthiness.                         *)
(***************************************************************************)
None == <<>>

Some(v) == <<v>>

Val(o) == o[1]

\* `not x` of Python for an optional string: None and "" are falsy.
Truthy(o) == o # None /\ Val(o) # ""

(***************************************************************************)
(* Bounds of the model.                                                    *)
(***************************************************************************)
\* How far outside [0,1] (in percent) the chat completion's overall_confidence may lie.
MaxOver == 2

\* Number of distinct identifiers a collaborator may return (job ids, message ids).
MaxIds == 2

(***************************************************************************)
(* Configuration (app/config.py).                                          *)
(***************************************************************************)
CONFIDENCE_AUTO_CREATE_THRESHOLD == 85

CONFIDENCE_CONFIRM_THRESHOLD == 50

\* overall_confidence of the fallback extraction when the response is not JSON.
ParseFailureConfidence == 30

\* overall_confidence used when the JSON object has no overall_confidence key.
MissingConfidenceDefault == 50

\* The range JobExtraction.overall_confidence accepts (ge=0, le=1), in percent.
ConfidenceRange == 0..100

\* What the chat completion may report as overall_confidence.
RawConfidences == (0 - MaxOver)..(100 + MaxOver)

Ids == 1..MaxIds

\* A returned JSON object may lack the id key: dict.get then gives None.
ReturnedIds == {None} \cup {Some(i) : i \in Ids}

Transcriptions == {"", "si", "hello there"}

\* Texts with fewer than 3 non-whitespace-stripped characters.
ShortTexts == {"", "si"}

Languages == {"es", "en", "pt"}

Titles == {None, Some("Reparacion")}

(***************************************************************************)
(* Collaborator calls. A try block of sequential awaits: the calls are     *)
(* made in order and the first one that raises ends the block.             *)
(***************************************************************************)
Call(node, fn, tag, ok, ret) ==
    [node |-> node, fn |-> fn, tag |-> tag, ok |-> ok, ret |-> ret]

\* specs: <<fn, tag, ret>> per planned call; fail: index of the call that raises, 0 if none.
TryBlock(node, specs, fail) ==
    [i \in 1..(IF fail = 0 THEN Len(specs) ELSE fail) |->
        Call(node, specs[i][1], specs[i][2], i # fail,
             IF i # fail THEN specs[i][3] ELSE None)]

NodeResult(st, cs, raised) == [st |-> st, calls |-> cs, raised |-> raised]

(***************************************************************************)
(* Initial state (app/api/voice.py) and the policy inputs of the state.    *)
(***************************************************************************)
EmptyDict == [k \in {} |-> TRUE]

PermissionDicts ==
    { EmptyDict, [translateMessages |-> TRUE], [translateMessages |-> FALSE] }

InitialStates ==
    { [ message_id |-> "msg",
        workflow_permissions |-> wp,
        business_languages |-> bl,
        status |-> "transcribing",
        transcription |-> None,
        extraction |-> None,
        confidence |-> None,
        job_id |-> None,
        error |-> None,
        detected_language |-> None,
        original_transcription |-> None,
        translated_transcription |-> None,
        confirmation_sent |-> FALSE,
        confirmation_message_id |-> None ] :
      wp \in {None} \cup {Some(d) : d \in PermissionDicts},
      bl \in {None, Some({"es"}), Some({"es", "en"}), Some({"en"})} }

(***************************************************************************)
(* check_permission                                                        *)
(***************************************************************************)
PermissionDefaults ==
    [ suggestResponses |-> TRUE,
      translateMessages |-> TRUE,
      suggestActions |-> TRUE,
      accessDatabase |-> TRUE,
      accessSchedule |-> TRUE,
      autoApproveSmallPriceAdjustments |-> FALSE,
      autoApproveThresholdPercent |-> 5,
      autoAssignTechnicians |-> FALSE ]

\* Mutant: a key missing from workflow_permissions counts as disabled.
check_permission_default_off(st, permission) ==
    LET permissions == IF st.workflow_permissions = None
                       THEN EmptyDict
                       ELSE Val(st.workflow_permissions)
    IN  IF permission \in DOMAIN permissions THEN permissions[permission]
        ELSE FALSE

check_permission(st, permission) ==
    LET permissions == IF st.workflow_permissions = None
                       THEN EmptyDict
                       ELSE Val(st.workflow_permissions)
    IN  IF permission \in DOMAIN permissions THEN permissions[permission]
        ELSE IF permission \in DOMAIN PermissionDefaults
             THEN PermissionDefaults[permission]
             ELSE TRUE

(***************************************************************************)
(* transcribe_node                                                         *)
(***************************************************************************)
TranscribeOutcomes == [fail : 0..3, text : Transcriptions]

transcribe_node(st, o) ==
    LET cs == TryBlock("transcribe",
                  << <<"download_audio", "", None>>,
                     <<"transcribe_audio", "es", None>>,
                     <<"update_message_status", "transcribed", None>> >>,
                  o.fail)
    IN  IF o.fail = 0
        THEN NodeResult([st EXCEPT !.transcription = Some(o.text),
                                   !.status = "translating",
                                   !.error = None], cs, FALSE)
        ELSE NodeResult([st EXCEPT !.status = "failed",
                                   !.error = Some("Transcription failed")], cs, FALSE)

(***************************************************************************)
(* update_message_status (app/integrations/postgres.py): the keyword       *)
(* parameters of its signature. A call with any other keyword raises       *)
(* TypeError before a request is made.                                     *)
(***************************************************************************)
UpdateMessageStatusParams ==
    {"message_id", "transcription", "extraction_data", "confidence", "status"}

\* The keywords translate_node passes when it persists the translation info.
TranslateUpdateKwargs ==
    {"message_id", "detected_language", "original_content", "translated_content"}

(***************************************************************************)
(* Translation service (app/services/translation.py). Neither function     *)
(* raises: both catch the chat completion's errors.                        *)
(***************************************************************************)
\* llm: "error" (the completion raised or did not validate) or the detected code.
detect_language(text, llm) ==
    IF text \in ShortTexts THEN "es"
    ELSE IF llm = "error" THEN "es"
    ELSE llm

\* llm: None (the completion raised), Some("") (empty content) or Some(content).
translate(text, source_lang, target_lang, llm) ==
    IF text = "" \/ source_lang = target_lang THEN text
    ELSE IF Truthy(llm) THEN Val(llm)
    ELSE text

\* The two service calls are logged with the language they worked on (tag), whether
\* their completion went through (ok) and, for translate, the text returned (ret).
detect_and_translate(text, business_languages, o) ==
    LET code == detect_language(text, o.detect)
        detected == Call("translate", "detect_language", code,
                         text \in ShortTexts \/ o.detect # "error", None)
        translated == translate(text, code, "es", o.translation)
        translation == Call("translate", "translate", code,
                            text = "" \/ code = "es" \/ o.translation # None,
                            Some(translated))
    IN  IF code \in business_languages
        THEN [final_text |-> text, code |-> code, translated |-> None,
              calls |-> <<detected>>]
        ELSE [final_text |-> translated, code |-> code,
              translated |-> Some(translated), calls |-> <<detected, translation>>]

(***************************************************************************)
(* translate_node                                                          *)
(***************************************************************************)
TranslateOutcomes ==
    [ detect : Languages \cup {"error"},
      translation : {None, Some(""), Some("hola traducido")},
      http_ok : BOOLEAN ]

\* Mutant: the handler reports the run as failed.
translate_node_fatal(st, o) ==
    IF ~check_permission(st, "translateMessages") \/ ~Truthy(st.transcription)
    THEN NodeResult([st EXCEPT !.status = "extracting",
                               !.detected_language = Some("es")], <<>>, FALSE)
    ELSE
      LET business_languages == IF st.business_languages = None
                                THEN {"es"}
                                ELSE Val(st.business_languages)
          d == detect_and_translate(Val(st.transcription), business_languages, o)
      IN  IF ~Truthy(d.translated)
          THEN NodeResult([st EXCEPT !.status = "extracting",
                                     !.detected_language = Some(d.code)],
                          d.calls, FALSE)
          ELSE NodeResult([st EXCEPT !.status = "failed",
                                     !.error = Some("Translation warning")],
                          d.calls, FALSE)

translate_node(st, o) ==
    IF ~check_permission(st, "translateMessages")
    THEN NodeResult([st EXCEPT !.status = "extracting",
                               !.detected_language = Some("es")], <<>>, FALSE)
    ELSE IF ~Truthy(st.transcription)
    THEN NodeResult([st EXCEPT !.status = "extracting",
                               !.detected_language = Some("es")], <<>>, FALSE)
    ELSE
      LET transcription == Val(st.transcription)
          business_languages == IF st.business_languages = None
                                THEN {"es"}
                                ELSE Val(st.business_languages)
          d == detect_and_translate(transcription, business_languages, o)
          update == [st EXCEPT !.status = "extracting",
                               !.detected_language = Some(d.code)]
          \* The call is bound to the signature first: no request is made when
          \* it does not accept the keywords.
          accepted == TranslateUpdateKwargs \subseteq UpdateMessageStatusParams
          update_call == Call("translate", "update_message_status",
                              "translation_info", o.http_ok, None)
          warned == [st EXCEPT !.status = "extracting",
                               !.detected_language = Some("es"),
                               !.error = Some("Translation warning")]
      IN  IF ~Truthy(d.translated)
          THEN NodeResult(update, d.calls, FALSE)
          ELSE IF ~accepted
          THEN NodeResult(warned, d.calls, FALSE)
          ELSE IF ~o.http_ok
          THEN NodeResult(warned, d.calls \o <<update_call>>, FALSE)
          ELSE NodeResult([update EXCEPT
                             !.original_transcription = Some(transcription),
                             !.translated_transcription = d.translated,
                             !.transcription = d.translated],
                          d.calls \o <<update_call>>, FALSE)

(***************************************************************************)
(* extract_job_data (app/integrations/openai_client.py) and extract_node   *)
(***************************************************************************)
\* The chat completion: "api_error" is the call raising (or the object failing
\* validation in another field), "bad_json" text that json.loads rejects, "object" a
\* JSON object with or without an overall_confidence.
LlmResponses ==
    [kind : {"api_error", "bad_json"}, title : {None}, confidence : {None}]
    \cup [kind : {"object"}, title : Titles,
          confidence : {None} \cup {Some(c) : c \in RawConfidences}]

JobExtraction(title, description, overall_confidence) ==
    [title |-> title, description |-> description,
     overall_confidence |-> overall_confidence]

\* Mutant: the fallback extraction carries the default confidence of a parsed object.
extract_job_data_default_confidence(transcription, llm) ==
    IF llm.kind = "api_error"
    THEN [raised |-> TRUE, extraction |-> None]
    ELSE IF llm.kind = "bad_json"
    THEN [raised |-> FALSE,
          extraction |-> Some(JobExtraction(None, Some(transcription),
                                            MissingConfidenceDefault))]
    ELSE LET c == IF llm.confidence = None THEN MissingConfidenceDefault
                  ELSE Val(llm.confidence)
         IN  IF c \in ConfidenceRange
             THEN [raised |-> FALSE,
                   extraction |-> Some(JobExtraction(llm.title, None, c))]
             ELSE [raised |-> TRUE, extraction |-> None]

\* Returns [raised, extraction]. JobExtraction validates 0 <= overall_confidence <= 1;
\* only json.JSONDecodeError is caught.
extract_job_data(transcription, llm) ==
    IF llm.kind = "api_error"
    THEN [raised |-> TRUE, extraction |-> None]
    ELSE IF llm.kind = "bad_json"
    THEN [raised |-> FALSE,
          extraction |-> Some(JobExtraction(None, Some(transcription),
                                            ParseFailureConfidence))]
    ELSE LET c == IF llm.confidence = None THEN MissingConfidenceDefault
                  ELSE Val(llm.confidence)
         IN  IF c \in ConfidenceRange
             THEN [raised |-> FALSE,
                   extraction |-> Some(JobExtraction(llm.title, None, c))]
             ELSE [raised |-> TRUE, extraction |-> None]

ExtractOutcomes == [llm : LlmResponses, update_ok : BOOLEAN]

extract_node(st, o) ==
    IF ~Truthy(st.transcription)
    THEN NodeResult([st EXCEPT !.status = "failed",
                               !.error = Some("No transcription available")],
                    <<>>, FALSE)
    ELSE
      LET r == extract_job_data(Val(st.transcription), o.llm)
          \* The extraction call is logged with the kind of completion it received
          \* (tag) and the overall_confidence the completion reported (ret).
          extracted == Call("extract", "extract_job_data", o.llm.kind, ~r.raised,
                            o.llm.confidence)
          persisted == Call("extract", "update_message_status", "extracted",
                            o.update_ok, None)
          cs == IF r.raised THEN <<extracted>> ELSE <<extracted, persisted>>
      IN  IF ~r.raised /\ o.update_ok
          THEN NodeResult([st EXCEPT !.extraction = r.extraction,
                                     !.confidence =
                                         Some(Val(r.extraction).overall_confidence),
                                     !.status = "routing",
                                     !.error = None], cs, FALSE)
          ELSE NodeResult([st EXCEPT !.status = "failed",
                                     !.error = Some("Extraction failed")], cs, FALSE)

(***************************************************************************)
(* route_by_confidence. Comparing None with a float raises TypeError.      *)
(***************************************************************************)
\* Mutant: the thresholds compared strictly.
route_by_confidence_strict(st) ==
    IF st.confidence = None THEN "TypeError"
    ELSE IF Val(st.confidence) > CONFIDENCE_AUTO_CREATE_THRESHOLD THEN "auto_create"
    ELSE IF Val(st.confidence) > CONFIDENCE_CONFIRM_THRESHOLD THEN "confirm"
    ELSE "human_review"

\* Mutant: everything at or above the confirmation threshold creates a job.
route_by_confidence_eager(st) ==
    IF st.confidence = None THEN "TypeError"
    ELSE IF Val(st.confidence) >= CONFIDENCE_CONFIRM_THRESHOLD THEN "auto_create"
    ELSE "human_review"

route_by_confidence(st) ==
    IF st.confidence = None THEN "TypeError"
    ELSE IF Val(st.confidence) >= CONFIDENCE_AUTO_CREATE_THRESHOLD THEN "auto_create"
    ELSE IF Val(st.confidence) >= CONFIDENCE_CONFIRM_THRESHOLD THEN "confirm"
    ELSE "human_review"

(***************************************************************************)
(* send_confirmation_node                                                  *)
(***************************************************************************)
ConfirmOutcomes == [fail : 0..2, id : ReturnedIds]

\* Mutant: a failed send reported as a failed run instead of the review fallback,
\* and the messenger's id not recorded.
send_confirmation_node_no_fallback(st, o) ==
    IF st.extraction = None
    THEN NodeResult([st EXCEPT !.status = "failed",
                               !.error = Some("No extraction data")], <<>>, FALSE)
    ELSE
      LET cs == TryBlock("confirm",
                    << <<"send_message", "confirmation", o.id>>,
                       <<"update_message_status", "awaiting_confirmation", None>> >>,
                    o.fail)
      IN  IF o.fail = 0
          THEN NodeResult([st EXCEPT !.status = "confirming",
                                     !.confirmation_sent = TRUE], cs, FALSE)
          ELSE NodeResult([st EXCEPT !.status = "failed",
                                     !.error = Some("Confirmation failed")], cs, FALSE)

send_confirmation_node(st, o) ==
    IF st.extraction = None
    THEN NodeResult([st EXCEPT !.status = "failed",
                               !.error = Some("No extraction data")], <<>>, FALSE)
    ELSE
      LET cs == TryBlock("confirm",
                    << <<"send_message", "confirmation", o.id>>,
                       <<"update_message_status", "awaiting_confirmation", None>> >>,
                    o.fail)
      IN  IF o.fail = 0
          THEN NodeResult([st EXCEPT !.status = "confirming",
                                     !.confirmation_sent = TRUE,
                                     !.confirmation_message_id = o.id], cs, FALSE)
          ELSE NodeResult([st EXCEPT !.status = "human_review",
                                     !.error = Some("Confirmation failed")], cs, FALSE)

(***************************************************************************)
(* auto_create_job_node                                                    *)
(***************************************************************************)
AutoCreateOutcomes == [fail : 0..3, id : ReturnedIds]

\* Mutant: the message is marked job_created before the job is created.
auto_create_job_node_status_first(st, o) ==
    IF st.extraction = None
    THEN NodeResult([st EXCEPT !.status = "failed",
                               !.error = Some("No extraction data")], <<>>, FALSE)
    ELSE
      LET cs == TryBlock("auto_create",
                    << <<"update_message_status", "job_created", None>>,
                       <<"create_job", "voice_ai_auto", o.id>>,
                       <<"send_message", "job_created_notice", None>> >>,
                    o.fail)
      IN  IF o.fail = 0
          THEN NodeResult([st EXCEPT !.status = "completed",
                                     !.job_id = o.id,
                                     !.error = None], cs, FALSE)
          ELSE NodeResult([st EXCEPT !.status = "human_review",
                                     !.error = Some("Job creation failed")], cs, FALSE)

\* Mutant: a failure inside auto_create reported as a failed run.
auto_create_job_node_fails(st, o) ==
    IF st.extraction = None
    THEN NodeResult([st EXCEPT !.status = "failed",
                               !.error = Some("No extraction data")], <<>>, FALSE)
    ELSE
      LET cs == TryBlock("auto_create",
                    << <<"create_job", "voice_ai_auto", o.id>>,
                       <<"send_message", "job_created_notice", None>>,
                       <<"update_message_status", "job_created", None>> >>,
                    o.fail)
      IN  IF o.fail = 0
          THEN NodeResult([st EXCEPT !.status = "completed",
                                     !.job_id = o.id,
                                     !.error = None], cs, FALSE)
          ELSE NodeResult([st EXCEPT !.status = "failed",
                                     !.error = Some("Job creation failed")], cs, FALSE)

auto_create_job_node(st, o) ==
    IF st.extraction = None
    THEN NodeResult([st EXCEPT !.status = "failed",
                               !.error = Some("No extraction data")], <<>>, FALSE)
    ELSE
      LET cs == TryBlock("auto_create",
                    << <<"create_job", "voice_ai_auto", o.id>>,
                       <<"send_message", "job_created_notice", None>>,
                       <<"update_message_status", "job_created", None>> >>,
                    o.fail)
      IN  IF o.fail = 0
          THEN NodeResult([st EXCEPT !.status = "completed",
                                     !.job_id = o.id,
                                     !.error = None], cs, FALSE)
          ELSE NodeResult([st EXCEPT !.status = "human_review",
                                     !.error = Some("Job creation failed")], cs, FALSE)

(***************************************************************************)
(* human_review_node                                                       *)
(***************************************************************************)
ReviewOutcomes == [fail : 0..3]

\* Mutant: the success branch forgets to set the status.
human_review_node_keeps_status(st, o) ==
    LET cs == TryBlock("human_review",
                  << <<"add_to_review_queue",
                       IF st.extraction = None THEN "empty_extraction" ELSE "extraction",
                       None>>,
                     <<"send_message", "waiting_notice", None>>,
                     <<"update_message_status", "queued_for_review", None>> >>,
                  o.fail)
    IN  IF o.fail = 0
        THEN NodeResult([st EXCEPT !.error = None], cs, FALSE)
        ELSE NodeResult([st EXCEPT !.status = "failed",
                                   !.error = Some("Failed to queue for review")],
                        cs, FALSE)

human_review_node(st, o) ==
    LET cs == TryBlock("human_review",
                  << <<"add_to_review_queue",
                       IF st.extraction = None THEN "empty_extraction" ELSE "extraction",
                       None>>,
                     <<"send_message", "waiting_notice", None>>,
                     <<"update_message_status", "queued_for_review", None>> >>,
                  o.fail)
    IN  IF o.fail = 0
        THEN NodeResult([st EXCEPT !.status = "human_review",
                                   !.error = None], cs, FALSE)
        ELSE NodeResult([st EXCEPT !.status = "failed",
                                   !.error = Some("Failed to queue for review")],
                        cs, FALSE)

(***************************************************************************)
(* handle_failure_node: one try block around the three calls, the          *)
(* exception swallowed, the state returned as received.                    *)
(***************************************************************************)
FailureOutcomes == [fail : 0..3]

\* Mutant: no try block, so a raising call escapes the node.
handle_failure_node_unguarded(st, o) ==
    LET cs == TryBlock("handle_failure",
                  << <<"update_message_status", "processing_failed", None>>,
                     <<"add_to_review_queue", "empty_extraction", None>>,
                     <<"send_message", "problem_notice", None>> >>,
                  o.fail)
    IN  NodeResult(st, cs, o.fail # 0)

\* Mutant: the failed message is not put on the review queue.
handle_failure_node_no_enqueue(st, o) ==
    LET cs == TryBlock("handle_failure",
                  << <<"update_message_status", "processing_failed", None>>,
                     <<"send_message", "problem_notice", None>> >>,
                  IF o.fail = 3 THEN 2 ELSE o.fail)
    IN  NodeResult(st, cs, FALSE)

\* Mutant: the node clears the error it was handed.
handle_failure_node_clears_error(st, o) ==
    LET cs == TryBlock("handle_failure",
                  << <<"update_message_status", "processing_failed", None>>,
                     <<"add_to_review_queue", "empty_extraction", None>>,
                     <<"send_message", "problem_notice", None>> >>,
                  o.fail)
    IN  NodeResult([st EXCEPT !.error = None], cs, FALSE)

handle_failure_node(st, o) ==
    LET cs == TryBlock("handle_failure",
                  << <<"update_message_status", "processing_failed", None>>,
                     <<"add_to_review_queue", "empty_extraction", None>>,
                     <<"send_message", "problem_notice", None>> >>,
                  o.fail)
    IN  NodeResult(st, cs, FALSE)

(***************************************************************************)
(* build_voice_workflow: entry point, conditional edges, terminal edges.   *)
(***************************************************************************)
EntryPoint == "transcribe"

Sinks == {"auto_create", "confirm", "human_review", "handle_failure"}

Nodes == {"transcribe", "translate", "extract"} \cup Sinks

transcribe_edge(st) ==
    IF st.status # "failed" THEN "translate" ELSE "handle_failure"

translate_edge(st) == "extract"

extract_edge(st) ==
    IF st.status # "failed" THEN route_by_confidence(st) ELSE "handle_failure"

terminal_edge(st) == "END"

\* The executor: the node's result becomes the state and the edge picks the next node;
\* an exception out of a node or out of an edge function ends the run with it.
Step(node, r, next) ==
    /\ state' = r.st
    /\ calls' = calls \o r.calls
    /\ trace' = Append(trace, node)
    /\ pc' = IF r.raised \/ next \notin Nodes \cup {"END"} THEN "RAISED" ELSE next

Transcribe ==
    /\ pc = "transcribe"
    /\ \E o \in TranscribeOutcomes :
         LET r == transcribe_node(state, o) IN Step("transcribe", r, transcribe_edge(r.st))

Translate ==
    /\ pc = "translate"
    /\ \E o \in TranslateOutcomes :
         LET r == translate_node(state, o) IN Step("translate", r, translate_edge(r.st))

Extract ==
    /\ pc = "extract"
    /\ \E o \in ExtractOutcomes :
         LET r == extract_node(state, o) IN Step("extract", r, extract_edge(r.st))

Confirm ==
    /\ pc = "confirm"
    /\ \E o \in ConfirmOutcomes :
         LET r == send_confirmation_node(state, o) IN Step("confirm", r, terminal_edge(r.st))

AutoCreate ==
    /\ pc = "auto_create"
    /\ \E o \in AutoCreateOutcomes :
         LET r == auto_create_job_node(state, o)
         IN  Step("auto_create", r, terminal_edge(r.st))

HumanReview ==
    /\ pc = "human_review"
    /\ \E o \in ReviewOutcomes :
         LET r == human_review_node(state, o)
         IN  Step("human_review", r, terminal_edge(r.st))

HandleFailure ==
    /\ pc = "handle_failure"
    /\ \E o \in FailureOutcomes :
         LET r == handle_failure_node(state, o)
         IN  Step("handle_failure", r, terminal_edge(r.st))

Init ==
    /\ pc = EntryPoint
    /\ state \in InitialStates
    /\ calls = <<>>
    /\ trace = <<>>

Next ==
    \/ Transcribe
    \/ Translate
    \/ Extract
    \/ Confirm
    \/ AutoCreate
    \/ HumanReview
    \/ HandleFailure

Spec == Init /\ [][Next]_vars

\* The executor runs a started pipeline on: a node that can run does run.
FairSpec == Spec /\ WF_vars(Next)

(***************************************************************************)
(* What a run has done so far.                                             *)
(***************************************************************************)
Executed(node) == \E i \in DOMAIN trace : trace[i] = node

LastNode == trace[Len(trace)]

JustRan(node) == trace # <<>> /\ LastNode = node

Ended == pc = "END"

NodeCalls(node) == SelectSeq(calls, LAMBDA c : c.node = node)

CallsTo(fn) == SelectSeq(calls, LAMBDA c : c.fn = fn)

AllOk(cs) == \A i \in DOMAIN cs : cs[i].ok

Attempted(node, fn) == \E i \in DOMAIN calls : calls[i].node = node /\ calls[i].fn = fn

\* The outbound messages that reached the customer.
Delivered == SelectSeq(calls, LAMBDA c : c.fn = "send_message" /\ c.ok)

Enqueued == \E i \in DOMAIN calls : calls[i].fn = "add_to_review_queue" /\ calls[i].ok

ConfidenceIn(lo, hi) ==
    state.confidence # None /\ lo <= Val(state.confidence) /\ Val(state.confidence) <= hi

(***************************************************************************)
(* C1. route_by_confidence returns auto_create iff c >= 0.85, confirm iff  *)
(* 0.50 <= c < 0.85 and human_review iff c < 0.50, for every c in [0,1],   *)
(* whatever the other fields of the state are; and that is where the edge  *)
(* after a successful extract sends the run.                               *)
(***************************************************************************)
RoutingDeterminism ==
    /\ \A c \in ConfidenceRange :
         LET branch == route_by_confidence([state EXCEPT !.confidence = Some(c)])
         IN  /\ (branch = "auto_create") <=> (c >= 85)
             /\ (branch = "confirm") <=> (50 <= c /\ c < 85)
             /\ (branch = "human_review") <=> (c < 50)
    /\ (JustRan("extract") /\ state.status # "failed") =>
         /\ (pc = "auto_create") <=> ConfidenceIn(85, 100)
         /\ (pc = "confirm") <=> ConfidenceIn(50, 84)
         /\ (pc = "human_review") <=> ConfidenceIn(0, 49)

\* The boundary c = H routed to auto_create.
RoutingBoundaryWitness ==
    JustRan("extract") /\ state.confidence = Some(85) /\ pc = "auto_create"

(***************************************************************************)
(* C2. Whenever a node catches a collaborator failure and returns status   *)
(* failed, the next node is handle_failure; so every run that ends with    *)
(* status failed has executed handle_failure.                              *)
(***************************************************************************)
FailedLeadsToHandleFailure ==
    /\ (trace # <<>> /\ LastNode # "handle_failure" /\ state.status = "failed"
        /\ ~AllOk(NodeCalls(LastNode))) => pc = "handle_failure"
    /\ (Ended /\ state.status = "failed") => Executed("handle_failure")

(***************************************************************************)
(* C3. A run starts at transcribe, executes each node at most once,        *)
(* executes exactly one of the four sinks and then stops; until a sink has *)
(* run a next node can always run, and no exception escapes.               *)
(***************************************************************************)
RunTerminates ==
    /\ pc # "RAISED"
    /\ trace = <<>> => pc = "transcribe"
    /\ trace # <<>> => trace[1] = "transcribe"
    /\ \A i, j \in DOMAIN trace : i # j => trace[i] # trace[j]
    /\ Cardinality({i \in DOMAIN trace : trace[i] \in Sinks}) <= 1
    /\ Ended <=> \E i \in DOMAIN trace : trace[i] \in Sinks
    /\ ~Ended => ENABLED Next
    /\ Ended => ~ENABLED Next

\* A run that ended in handle_failure although a compensating call raised.
TerminatesDespiteFailureWitness ==
    Ended /\ JustRan("handle_failure") /\ ~AllOk(NodeCalls("handle_failure"))

(***************************************************************************)
(* C4. The status is always one of the eight written values (never         *)
(* 'creating'), and when the run has ended it is one of completed,         *)
(* confirming, human_review, failed.                                       *)
(***************************************************************************)
StatusEnumerated ==
    /\ state.status \in {"transcribing", "translating", "extracting", "routing",
                         "confirming", "completed", "failed", "human_review"}
    /\ Ended => state.status \in {"completed", "confirming", "human_review", "failed"}

\* A run that ended through the human_review node with status human_review.
TerminalStatusWitness ==
    Ended /\ JustRan("human_review") /\ state.status = "human_review"

(***************************************************************************)
(* C5. With confidence >= 0.85 and every collaborator call succeeding, the *)
(* run calls create_job once with source voice_ai_auto, then sends one     *)
(* outbound message, then persists job_created, and ends completed with    *)
(* job_id the id create_job returned; job_created is never persisted       *)
(* before create_job has returned.                                         *)
(***************************************************************************)
AutoCreateEffects ==
    /\ (Ended /\ ConfidenceIn(85, 100) /\ AllOk(calls)) =>
         LET cs == NodeCalls("auto_create")
         IN  /\ Len(cs) = 3
             /\ cs[1].fn = "create_job" /\ cs[1].tag = "voice_ai_auto"
             /\ cs[2].fn = "send_message"
             /\ cs[3].fn = "update_message_status" /\ cs[3].tag = "job_created"
             /\ SubSeq(calls, Len(calls) - 2, Len(calls)) = cs
             /\ Len(CallsTo("create_job")) = 1
             /\ Len(CallsTo("send_message")) = 1
             /\ state.status = "completed"
             /\ state.job_id = cs[1].ret
    /\ \A i \in DOMAIN calls :
         (calls[i].fn = "update_message_status" /\ calls[i].tag = "job_created") =>
            \E j \in 1..(i - 1) : calls[j].fn = "create_job" /\ calls[j].ok

\* A completed run whose job id is the one create_job returned.
AutoCreateWitness ==
    Ended /\ ConfidenceIn(85, 100) /\ AllOk(calls) /\ state.job_id = Some(1)

(***************************************************************************)
(* C6. If a collaborator call made by auto_create raises, auto_create      *)
(* returns status human_review with an error message, never status failed. *)
(***************************************************************************)
AutoCreateFallsBackToReview ==
    JustRan("auto_create") =>
        /\ state.status # "failed"
        /\ ~AllOk(NodeCalls("auto_create")) =>
              state.status = "human_review" /\ state.error # None

\* auto_create whose job was created but whose outbound send raised.
AutoCreateFailureWitness ==
    /\ JustRan("auto_create")
    /\ Len(NodeCalls("auto_create")) = 2
    /\ ~NodeCalls("auto_create")[2].ok
    /\ state.status = "human_review"

CompensationActionsIndependent ==
    Executed("handle_failure") =>
        /\ Attempted("handle_failure", "update_message_status")
        /\ Attempted("handle_failure", "add_to_review_queue")
        /\ Attempted("handle_failure", "send_message")

(***************************************************************************)
(* C9. handle_failure never raises and returns the state it received,      *)
(* whichever of its collaborator calls fail.                               *)
(***************************************************************************)
HandleFailureReturnsState ==
    [][pc = "handle_failure" => (state' = state /\ pc' = "END")]_vars

\* handle_failure has run with its first call raising; the state is still the failed one.
HandleFailureWitness ==
    /\ Ended /\ JustRan("handle_failure")
    /\ ~NodeCalls("handle_failure")[1].ok
    /\ state.status = "failed" /\ state.error # None

(***************************************************************************)
(* C10. With 0.50 <= confidence < 0.85: if the outbound send and the       *)
(* status update succeed the run ends with status confirming,              *)
(* confirmation_sent, confirmation_message_id the messenger's id and       *)
(* awaiting_confirmation persisted; create_job is never invoked; if the    *)
(* send raises the run ends with status human_review.                      *)
(***************************************************************************)
ConfirmBranch ==
    (Ended /\ ConfidenceIn(50, 84)) =>
        LET cs == NodeCalls("confirm")
        IN  /\ JustRan("confirm")
            /\ Len(CallsTo("create_job")) = 0
            /\ cs # <<>> /\ cs[1].fn = "send_message"
            /\ AllOk(cs) =>
                 /\ Len(cs) = 2
                 /\ cs[2].fn = "update_message_status"
                 /\ cs[2].tag = "awaiting_confirmation"
                 /\ state.status = "confirming"
                 /\ state.confirmation_sent
                 /\ state.confirmation_message_id = cs[1].ret
            /\ ~cs[1].ok => state.status = "human_review"

\* A run that ended confirming with the messenger's id recorded.
ConfirmSentWitness ==
    /\ Ended /\ ConfidenceIn(50, 84) /\ state.status = "confirming"
    /\ state.confirmation_message_id = Some(2)

(***************************************************************************)
(* Steps of a node seen as actions: the calls it adds to the log.          *)
(***************************************************************************)
NewCalls == SubSeq(calls', Len(calls) + 1, Len(calls'))

NewCallsTo(fn) == SelectSeq(NewCalls, LAMBDA c : c.fn = fn)

\* business_languages as translate_node reads it.
BusinessLanguagesOf(st) ==
    IF st.business_languages = None THEN {"es"} ELSE Val(st.business_languages)

\* translateMessages is enabled: absent from workflow_permissions, or set to true.
TranslateEnabled(st) ==
    \/ st.workflow_permissions = None
    \/ "translateMessages" \notin DOMAIN Val(st.workflow_permissions)
    \/ Val(st.workflow_permissions)["translateMessages"]

TranslationWarning == Some("Translation warning")

(***************************************************************************)
(* C11: when translateMessages is enabled, the detected language is not a  *)
(* business language and the translator returns text T, the translate node *)
(* returns original_transcription = the transcription it was given,        *)
(* translated_transcription = T and transcription = T, and extract runs    *)
(* next (on T).                                                            *)
(***************************************************************************)
TranslationStored ==
    [][ \A i \in DOMAIN NewCallsTo("translate") :
          LET c == NewCallsTo("translate")[i]
          IN  ( /\ pc = "translate"
                /\ TranslateEnabled(state)
                /\ c.tag \notin BusinessLanguagesOf(state)
                /\ c.tag # "es"
                /\ c.ok /\ Truthy(c.ret) )
              => /\ state'.original_transcription = state.transcription
                 /\ state'.translated_transcription = c.ret
                 /\ state'.transcription = c.ret
                 /\ pc' = "extract" ]_vars

(***************************************************************************)
(* C12 as stated: whenever language detection, translation or persisting   *)
(* the translation info raised, the translate node returns status          *)
(* extracting, the transcription it was given and a warning in error;      *)
(* translate never returns failed and extract runs next.                   *)
(***************************************************************************)
TranslateFailureWarns ==
    [][ pc = "translate" =>
          /\ state'.status # "failed"
          /\ pc' = "extract"
          /\ ~AllOk(NewCalls) =>
                /\ state'.status = "extracting"
                /\ state'.transcription = state.transcription
                /\ state'.error = TranslationWarning ]_vars

\* The translation info had to be persisted and no request for it went through.
PersistRaised == NewCallsTo("translate") # <<>> /\ ~\E i \in DOMAIN NewCalls :
                    NewCalls[i].fn = "update_message_status" /\ NewCalls[i].ok

(***************************************************************************)
(* C12 amended: translate always returns status extracting (never failed)  *)
(* and extract runs next; whenever detection, translation or persisting    *)
(* raised, transcription keeps the value it had on entry; the warning is   *)
(* recorded in error when persisting the translation info raised.          *)
(***************************************************************************)
TranslateNonFatal ==
    [][ pc = "translate" =>
          /\ state'.status = "extracting"
          /\ pc' = "extract"
          /\ (~AllOk(NewCalls) \/ PersistRaised) =>
                state'.transcription = state.transcription
          /\ PersistRaised => state'.error = TranslationWarning ]_vars

\* The handler of translate ran: a translation was produced and not persisted.
TranslateWarnedWitness ==
    /\ JustRan("translate")
    /\ Attempted("translate", "translate")
    /\ state.status = "extracting"
    /\ state.error = TranslationWarning
    /\ pc = "extract"

(***************************************************************************)
(* C13: translate calls the detection/translation service only if          *)
(* translateMessages is enabled, a missing key counting as enabled (the    *)
(* service is then called on every non-empty transcription); when it is    *)
(* disabled the node returns status extracting, detected_language es, and  *)
(* transcription, original_transcription, translated_transcription as they *)
(* were.                                                                   *)
(***************************************************************************)
TranslateRespectsPermission ==
    [][ pc = "translate" =>
          /\ NewCalls # <<>> => TranslateEnabled(state)
          /\ (TranslateEnabled(state) /\ Truthy(state.transcription)) =>
                NewCallsTo("detect_language") # <<>>
          /\ ~TranslateEnabled(state) =>
                /\ state'.status = "extracting"
                /\ state'.detected_language = Some("es")
                /\ state'.transcription = state.transcription
                /\ state'.original_transcription = state.original_transcription
                /\ state'.translated_transcription = state.translated_transcription
                /\ NewCalls = <<>> ]_vars

\* Translation was switched off for a run whose transcription was not empty ...
TranslateDisabledWitness ==
    /\ JustRan("translate")
    /\ ~TranslateEnabled(state)
    /\ Truthy(state.transcription)
    /\ state.detected_language = Some("es")
    /\ ~Attempted("translate", "detect_language")

(***************************************************************************)
(* The extraction call of the run, as logged by extract_node.              *)
(***************************************************************************)
ExtractionCalls == SelectSeq(calls, LAMBDA c : c.fn = "extract_job_data")

\* The completion of the extraction call was of this kind.
ExtractionKind(kind) ==
    ExtractionCalls # <<>> /\ ExtractionCalls[1].tag = kind

\* The status update of extract_node went through.
ExtractionPersisted ==
    \E i \in DOMAIN calls : /\ calls[i].node = "extract"
                            /\ calls[i].fn = "update_message_status"
                            /\ calls[i].ok

\* What a run does once extract handed a parse-failure extraction to the router.
DegradedToReview ==
    /\ state.extraction =
          Some(JobExtraction(None, state.transcription, ParseFailureConfidence))
    /\ state.confidence = Some(ParseFailureConfidence)
    /\ JustRan("extract") => (state.status = "routing" /\ pc = "human_review")
    /\ ~Executed("handle_failure")
    /\ ~Executed("auto_create")
    /\ ~Executed("confirm")
    /\ Ended => Executed("human_review")

(***************************************************************************)
(* C14 as stated: when the completion for job extraction cannot be         *)
(* deserialized, extract yields a JobExtraction with only description (the *)
(* transcription) and overall_confidence 0.3, sets status routing, and the *)
(* run takes human_review, not handle_failure.                             *)
(***************************************************************************)
ParseFailureDegrades ==
    ExtractionKind("bad_json") => DegradedToReview

(***************************************************************************)
(* C14 amended: the same, provided the status update that extract makes    *)
(* after the extraction goes through.                                      *)
(***************************************************************************)
ParseFailureDegradesWhenPersisted ==
    (ExtractionKind("bad_json") /\ ExtractionPersisted) => DegradedToReview

\* A run that ended in human_review on a completion that was not JSON.
ParseFailureWitness ==
    /\ ExtractionKind("bad_json")
    /\ ExtractionPersisted
    /\ Ended
    /\ Executed("human_review")
    /\ Val(state.extraction).description = Some("hello there")

\* Python's max(0, min(1, c)) on percentages.
Clamp(c) == IF c < 0 THEN 0 ELSE IF c > 100 THEN 100 ELSE c

(***************************************************************************)
(* C15: when the completion reports an overall confidence outside [0,1],   *)
(* extract clamps it into [0,1] and the run goes on to routing with the    *)
(* clamped value instead of the failure path.                              *)
(***************************************************************************)
OutOfRangeConfidenceClamped ==
    ( /\ JustRan("extract")
      /\ ExtractionKind("object")
      /\ ExtractionCalls[1].ret # None
      /\ Val(ExtractionCalls[1].ret) \notin ConfidenceRange
      /\ AllOk(SelectSeq(NodeCalls("extract"),
                         LAMBDA c : c.fn = "update_message_status")) )
    => /\ state.status = "routing"
       /\ state.confidence = Some(Clamp(Val(ExtractionCalls[1].ret)))
       /\ pc = route_by_confidence(state)
       /\ pc # "handle_failure"

(***************************************************************************)
(* Invoice Draft Generator (app/services/invoice_extraction.py).           *)
(* Scores and confidences are integers in units of 1/8400, so that every   *)
(* Jaccard quotient i/u with u <= 8, its product with 0.7 and the bonus    *)
(* 0.1 are exact: 1.0 is 8400, 0.85 is 7140, 0.70 is 5880, 0.2 is 1680.    *)
(* Money is an integer in units of 0.00001; a catalog price is in cents    *)
(* and a quantity in tenths.                                               *)
(***************************************************************************)
\* Bounds: extracted parts, extracted services and catalog entries per run.
MaxParts == 2

MaxServices == 1

MaxCatalog == 2

ScoreOne == 8400

HIGH_CONFIDENCE_THRESHOLD == 7140

MEDIUM_CONFIDENCE_THRESHOLD == 5880

\* A candidate is kept when its score is strictly above 0.2.
MinScore == 1680

UnitBonus == 840

\* confidence=0.8 of every extracted item and of the report.
ExtractionConfidence == 6720

TaxRatePercent == 21

\* Decimal(str(price)) of a price in cents.
Cents(c) == c * 1000

\* Python's sum() over a sequence of integers.
Sum(s) ==
    LET partial[i \in 0..Len(s)] == IF i = 0 THEN 0 ELSE partial[i - 1] + s[i]
    IN  partial[Len(s)]

(***************************************************************************)
(* calculate_match_score. A text is the sequence of its whitespace-        *)
(* separated words; LowerStripped is s.lower() followed by the removal of  *)
(* punctuation, word by word, on the words the model uses.                 *)
(***************************************************************************)
LowerStripped(w) ==
    CASE w = "Filtro" -> "filtro"
      [] w = "aire," -> "aire"
      [] w = "Gas" -> "gas"
      [] w = "R-410" -> "r410"
      [] w = "-" -> ""
      [] OTHER -> w

stopwords == {"de", "la", "el", "un", "una", "para", "con", "por", "y", "en"}

normalize(s) ==
    { t \in { LowerStripped(s[i]) : i \in DOMAIN s } :
        t # "" /\ t \notin stopwords /\ Len(t) > 2 }

\* Jaccard similarity of two token sets, 0 when either is empty.
jaccard(extracted_tokens, catalog_tokens) ==
    IF extracted_tokens = {} \/ catalog_tokens = {} THEN 0
    ELSE (Cardinality(extracted_tokens \cap catalog_tokens) * ScoreOne)
         \div Cardinality(extracted_tokens \cup catalog_tokens)

calculate_match_score(extracted_name, catalog_name) ==
    jaccard(normalize(extracted_name), normalize(catalog_name))

(***************************************************************************)
(* match_to_pricebook                                                      *)
(***************************************************************************)
\* str.lower() on the units the model uses.
LowerUnit(u) == IF u = "Unidad" THEN "unidad" ELSE u

\* Mutant: a sort that is not stable, equal scores come out in reverse order.
SortByScore_unstable(s) ==
    LET place(i) == 1 + Cardinality({ j \in DOMAIN s :
                          \/ s[j].score > s[i].score
                          \/ s[j].score = s[i].score /\ j > i })
    IN  [k \in DOMAIN s |-> s[CHOOSE i \in DOMAIN s : place(i) = k]]

\* list.sort(key=score, reverse=True): stable, so equal scores keep their order.
\* An element's place is after every higher score and every earlier equal score.
SortByScore(s) ==
    LET place(i) == 1 + Cardinality({ j \in DOMAIN s :
                          \/ s[j].score > s[i].score
                          \/ s[j].score = s[i].score /\ j < i })
    IN  [k \in DOMAIN s |-> s[CHOOSE i \in DOMAIN s : place(i) = k]]

Max(a, b) == IF a >= b THEN a ELSE b

Min(a, b) == IF a <= b THEN a ELSE b

\* Mutant: the unit comparison is case-sensitive.
total_score_case_sensitive(extracted_name, extracted_unit, item) ==
    Min(ScoreOne,
        Max(calculate_match_score(extracted_name, item.name),
            (calculate_match_score(extracted_name, item.description) * 7) \div 10)
        + (IF item.unit = extracted_unit THEN UnitBonus ELSE 0))

\* min(1.0, max(name_score, desc_score) + unit_bonus), desc_score weighted by 0.7.
total_score(extracted_name, extracted_unit, item) ==
    Min(ScoreOne,
        Max(calculate_match_score(extracted_name, item.name),
            (calculate_match_score(extracted_name, item.description) * 7) \div 10)
        + (IF LowerUnit(item.unit) = LowerUnit(extracted_unit) THEN UnitBonus ELSE 0))

Scored(item, score) ==
    [id |-> item.id, name |-> item.name, price |-> item.price,
     unit |-> item.unit, type |-> item.type, score |-> score]

\* Mutant: the type filter is ignored.
candidates_of_unfiltered(pricebook, filtered) == pricebook

\* The entries of the wanted type, or the whole catalog when there is none.
candidates_of(pricebook, filtered) ==
    IF filtered = <<>> THEN pricebook ELSE filtered

\* The candidates with their scores, those at or below 0.2 dropped.
scored_of(extracted_name, extracted_unit, candidates) ==
    SelectSeq([i \in DOMAIN candidates |->
                  Scored(candidates[i],
                         total_score(extracted_name, extracted_unit, candidates[i]))],
              LAMBDA c : c.score > MinScore)

\* scored[0], its score and scored[1:4] of the sorted candidates.
best_of(scored) ==
    IF scored = <<>>
    THEN [match |-> None, confidence |-> 0, alternatives |-> <<>>]
    ELSE [match |-> Some(scored[1]),
          confidence |-> scored[1].score,
          alternatives |-> SubSeq(scored, 2, Min(Len(scored), 4))]

\* Returns [match, confidence, alternatives]; match is None or Some(scored entry).
match_to_pricebook(extracted_name, extracted_unit, pricebook, item_type) ==
    IF pricebook = <<>>
    THEN [match |-> None, confidence |-> 0, alternatives |-> <<>>]
    ELSE best_of(SortByScore(scored_of(extracted_name, extracted_unit,
            candidates_of(pricebook,
                IF item_type = "part"
                THEN SelectSeq(pricebook, LAMBDA p : p.type = "PRODUCT")
                ELSE IF item_type = "service"
                THEN SelectSeq(pricebook, LAMBDA p : p.type = "SERVICE")
                ELSE pricebook))))

(***************************************************************************)
(* Inputs of a generator run: the catalog the collaborator serves and the  *)
(* items the chat completion extracts.                                     *)
(***************************************************************************)
CatalogEntry(id, name, description, price, unit, type) ==
    [id |-> id, name |-> name, description |-> description, price |-> price,
     unit |-> unit, type |-> type]

CatalogEntries ==
    { CatalogEntry("p1", <<"Filtro", "de", "aire">>, <<>>, 1055, "Unidad", "PRODUCT"),
      CatalogEntry("p2", <<"filtro", "aire", "split">>, <<>>, 2000, "unidad", "PRODUCT"),
      CatalogEntry("p3", <<"filtro", "aire", "split", "inverter">>, <<>>, 2550,
                   "unidad", "PRODUCT"),
      CatalogEntry("p4", <<"repuesto">>, <<"filtro", "aire,">>, 990, "metro", "PRODUCT"),
      CatalogEntry("s1", <<"carga", "de", "Gas">>, <<>>, 15000, "hora", "SERVICE"),
      CatalogEntry("s2", <<"limpieza", "filtro", "aire">>, <<>>, 8025, "visita",
                   "SERVICE") }

\* Sequences of elements of S of length at most n.
SeqsUpTo(S, n) == UNION { [1..k -> S] : k \in 0..n }

\* A catalog lists an entry once.
Catalogs ==
    { q \in SeqsUpTo(CatalogEntries, MaxCatalog) :
        \A i, j \in DOMAIN q : i # j => q[i] # q[j] }

ExtractedPart(name, quantity, unit, source_text) ==
    [name |-> name, quantity |-> quantity, unit |-> unit,
     source_text |-> source_text, confidence |-> ExtractionConfidence]

\* quantity in tenths: 10 is 1.0, 25 is 2.5.
ExtractedParts ==
    { ExtractedPart(<<"filtro", "de", "aire">>, 10, "unidad", "cambie el filtro"),
      ExtractedPart(<<"filtro", "aire">>, 25, "kg", "dos filtros y medio"),
      ExtractedPart(<<"filtro", "aire", "split">>, 10, "unidad", "filtro del split"),
      ExtractedPart(<<"capacitor">>, 20, "unidad", "dos capacitores") }

ExtractedService(description, duration_minutes, source_text) ==
    [description |-> description, duration_minutes |-> duration_minutes,
     source_text |-> source_text, confidence |-> ExtractionConfidence]

ExtractedServices ==
    { ExtractedService(<<"carga", "gas">>, None, "cargue gas"),
      ExtractedService(<<"carga", "gas", "R-410">>, Some(90), "hora y media de carga"),
      ExtractedService(<<"limpieza">>, Some(0), "limpie"),
      ExtractedService(<<"revision", "general">>, Some(30), "revise todo") }

TechnicianReportExtraction(parts, services) ==
    [parts_used |-> parts, services_performed |-> services,
     overall_confidence |-> ExtractionConfidence]

\* The chat completion of the generator: it raised, its content was not JSON, or it
\* was an object with parts_used and services_performed.
InvoiceLlmResponses ==
    [kind : {"api_error", "bad_json"}, parts : { <<>> }, services : { <<>> }]
    \cup [kind : {"object"},
          parts : SeqsUpTo(ExtractedParts, MaxParts),
          services : SeqsUpTo(ExtractedServices, MaxServices)]

\* The catalog request: it raised, or answered with a status and a body.
PricebookResponses ==
    [kind : {"exception"}, status : {0}, items : { <<>> }]
    \cup [kind : {"response"}, status : {200, 500}, items : Catalogs]

(***************************************************************************)
(* fetch_pricebook                                                         *)
(***************************************************************************)
\* Mutant: the body is used whatever the status.
fetch_pricebook_any_status(response) ==
    IF response.kind = "exception" THEN <<>> ELSE response.items

fetch_pricebook(response) ==
    IF response.kind = "exception" THEN <<>>
    ELSE IF response.status = 200 THEN response.items
    ELSE <<>>

(***************************************************************************)
(* extract_invoice_data: the line items.                                   *)
(***************************************************************************)
MatchedLineItem(description, quantity, unit, unit_price, total, source_type, source_text, matched, match_confidence, alternative_matches, needs_review, review_reason) ==
    [description |-> description, quantity |-> quantity, unit |-> unit,
     unit_price |-> unit_price, total |-> total,
     source_type |-> source_type, source_text |-> source_text,
     matched_price_item_id |-> IF matched = None THEN None ELSE Some(Val(matched).id),
     matched_price_item_name |-> IF matched = None THEN None ELSE Some(Val(matched).name),
     match_confidence |-> match_confidence,
     alternative_matches |-> alternative_matches,
     needs_review |-> needs_review, review_reason |-> review_reason]

\* unit_price * Decimal(str(quantity)): price in units of 0.00001, quantity in tenths.
LineTotal(unit_price, quantity) == (unit_price * quantity) \div 10

\* A line priced from the catalog entry the matcher returned.
PricedLine(m, quantity, source_type, source_text, needs_review, review_reason) ==
    LET match == Val(m.match)
        unit_price == Cents(match.price)
    IN  MatchedLineItem(match.name, quantity, match.unit, Some(unit_price),
                        Some(LineTotal(unit_price, quantity)), source_type, source_text,
                        m.match, m.confidence, m.alternatives, needs_review,
                        review_reason)

\* The custom line of a part that has no usable match.
CustomPartLine(part, m) ==
    [item |-> MatchedLineItem(part.name, part.quantity, part.unit, None, None,
                  "part", part.source_text, None,
                  IF m.match # None THEN m.confidence ELSE 0,
                  m.alternatives, TRUE, Some("Parte no encontrada en catalogo")),
     notes |-> <<"Agrega precio para">>]

\* The three tiers of a part, given the matcher's answer m.
part_line(part, m) ==
    IF m.match # None /\ m.confidence >= HIGH_CONFIDENCE_THRESHOLD
    THEN [item |-> PricedLine(m, part.quantity, "part", part.source_text, FALSE, None),
          notes |-> <<>>]
    ELSE IF m.match # None /\ m.confidence >= MEDIUM_CONFIDENCE_THRESHOLD
    THEN [item |-> PricedLine(m, part.quantity, "part", part.source_text,
                              TRUE, Some("Coincidencia media")),
          notes |-> <<"Revisar">>]
    ELSE CustomPartLine(part, m)

\* Mutant: a medium-confidence part is not flagged for review.
part_line_unreviewed(part, m) ==
    IF m.match # None /\ m.confidence >= MEDIUM_CONFIDENCE_THRESHOLD
    THEN [item |-> PricedLine(m, part.quantity, "part", part.source_text, FALSE, None),
          notes |-> <<>>]
    ELSE CustomPartLine(part, m)

part_line_item_unreviewed(part, pricebook) ==
    part_line_unreviewed(part,
        match_to_pricebook(part.name, part.unit, pricebook, "part"))

\* Returns the line item of a part and the review notes it adds.
part_line_item(part, pricebook) ==
    part_line(part, match_to_pricebook(part.name, part.unit, pricebook, "part"))

\* duration_minutes / 60 if duration_minutes else 1.0, in tenths of an hour.
Hours(service) ==
    IF service.duration_minutes = None \/ Val(service.duration_minutes) = 0 THEN 10
    ELSE (Val(service.duration_minutes) * 10) \div 60

\* The priced line of a service: review-gated at the high threshold, no review note.
PricedServiceLine(service, m) ==
    [item |-> PricedLine(m, Hours(service), "service", service.source_text,
                  m.confidence < HIGH_CONFIDENCE_THRESHOLD,
                  IF m.confidence < HIGH_CONFIDENCE_THRESHOLD
                  THEN Some("Servicio") ELSE None),
     notes |-> <<>>]

CustomServiceLine(service, m) ==
    [item |-> MatchedLineItem(service.description, Hours(service), "hora",
                  None, None, "service", service.source_text, None, 0,
                  m.alternatives, TRUE, Some("Servicio no encontrado")),
     notes |-> <<"Agrega precio para servicio">>]

\* The two tiers of a service, given the matcher's answer m.
service_line(service, m) ==
    IF m.match # None /\ m.confidence >= MEDIUM_CONFIDENCE_THRESHOLD
    THEN PricedServiceLine(service, m)
    ELSE CustomServiceLine(service, m)

\* Mutant: any match the matcher returns is priced.
service_line_priced_low(service, m) ==
    IF m.match # None THEN PricedServiceLine(service, m)
    ELSE CustomServiceLine(service, m)

service_line_item_priced_low(service, pricebook) ==
    service_line_priced_low(service,
        match_to_pricebook(service.description, "hora", pricebook, "service"))

\* Returns the line item of a service and the review notes it adds.
service_line_item(service, pricebook) ==
    service_line(service,
        match_to_pricebook(service.description, "hora", pricebook, "service"))

(***************************************************************************)
(* extract_invoice_data: totals and the suggestion.                        *)
(***************************************************************************)
\* tax_amount = subtotal * (21.0 / 100), total = subtotal + tax_amount.
totals_of(subtotal, taxed) ==
    [subtotal |-> subtotal,
     tax_amount |-> (taxed * TaxRatePercent) \div 100,
     total |-> subtotal + (taxed * TaxRatePercent) \div 100]

\* The totals of the lines that have one.
PricedTotals(line_items) ==
    SelectSeq([i \in DOMAIN line_items |-> line_items[i].total], LAMBDA t : t # None)

\* Mutant: every line is taxed on its unit price, whatever its quantity.
invoice_totals_on_unit_prices(line_items) ==
    totals_of(Sum([i \in DOMAIN PricedTotals(line_items) |->
                      Val(PricedTotals(line_items)[i])]),
              Sum([i \in DOMAIN line_items |->
                      IF line_items[i].unit_price = None THEN 0
                      ELSE Val(line_items[i].unit_price)]))

subtotal_of(totals) == Sum([i \in DOMAIN totals |-> Val(totals[i])])

invoice_totals(line_items) ==
    totals_of(subtotal_of(PricedTotals(line_items)),
              subtotal_of(PricedTotals(line_items)))

\* The mean of the priced items' match confidences, as the quotient num/den.
mean_confidence(priced_items) ==
    IF priced_items = <<>> THEN [num |-> 0, den |-> 1]
    ELSE [num |-> Sum([i \in DOMAIN priced_items |-> priced_items[i].match_confidence]),
          den |-> Len(priced_items)]

overall_confidence(line_items) ==
    mean_confidence(SelectSeq(line_items, LAMBDA item : item.unit_price # None))

\* The concatenation of a sequence of sequences.
Flatten(ss) ==
    LET upto[i \in 0..Len(ss)] == IF i = 0 THEN <<>> ELSE upto[i - 1] \o ss[i]
    IN  upto[Len(ss)]

\* The report built from the completion: every failure leaves an empty object.
extract_report(llm) ==
    IF llm.kind = "object"
    THEN TechnicianReportExtraction(llm.parts, llm.services)
    ELSE TechnicianReportExtraction(<<>>, <<>>)

\* Mutant: the services come first and a part without a match gets no line.
line_results_services_first(extraction, pricebook) ==
    [i \in DOMAIN extraction.services_performed |->
        service_line_item(extraction.services_performed[i], pricebook)]
    \o SelectSeq([i \in DOMAIN extraction.parts_used |->
                    part_line_item(extraction.parts_used[i], pricebook)],
                 LAMBDA r : r.item.matched_price_item_id # None)

\* The results (line item and notes) of the parts, then of the services.
line_results(extraction, pricebook) ==
    [i \in DOMAIN extraction.parts_used |->
        part_line_item(extraction.parts_used[i], pricebook)]
    \o [i \in DOMAIN extraction.services_performed |->
          service_line_item(extraction.services_performed[i], pricebook)]

InvoiceSuggestion(extraction, line_items, review_notes, totals) ==
    [line_items |-> line_items,
     subtotal |-> totals.subtotal,
     tax_amount |-> totals.tax_amount,
     total |-> totals.total,
     extraction |-> extraction,
     requires_review |-> \E i \in DOMAIN line_items : line_items[i].needs_review,
     review_notes |-> review_notes,
     overall_match_confidence |-> overall_confidence(line_items)]

suggestion_of(extraction, line_items, review_notes) ==
    InvoiceSuggestion(extraction, line_items, review_notes, invoice_totals(line_items))

\* What extract_invoice_data returns for a report and a catalog.
build_suggestion(extraction, results) ==
    suggestion_of(extraction,
                  [i \in DOMAIN results |-> results[i].item],
                  Flatten([i \in DOMAIN results |-> results[i].notes]))

(***************************************************************************)
(* extract_invoice_data as a process: the chat completion, the catalog     *)
(* request, then the matching and the totals.                              *)
(***************************************************************************)
InvoiceInitialState ==
    [transcription |-> "informe", job_id |-> "job", organization_id |-> "org",
     extraction |-> None, pricebook |-> None, suggestion |-> None]

ExtractReport ==
    /\ pc = "extract_report"
    /\ \E llm \in InvoiceLlmResponses :
         /\ state' = [state EXCEPT !.extraction = Some(extract_report(llm))]
         /\ calls' = Append(calls, Call("extract_invoice_data", "chat_completion",
                                        llm.kind, llm.kind = "object", None))
    /\ trace' = Append(trace, "extract_report")
    /\ pc' = "fetch_pricebook"

FetchPricebook ==
    /\ pc = "fetch_pricebook"
    /\ \E response \in PricebookResponses :
         /\ state' = [state EXCEPT !.pricebook = Some(fetch_pricebook(response))]
         /\ calls' = Append(calls, Call("extract_invoice_data", "fetch_pricebook",
                                        response.kind,
                                        response.kind = "response" /\ response.status = 200,
                                        None))
    /\ trace' = Append(trace, "fetch_pricebook")
    /\ pc' = "match_items"

MatchItems ==
    /\ pc = "match_items"
    /\ state' = [state EXCEPT !.suggestion =
                    Some(build_suggestion(Val(state.extraction),
                         line_results(Val(state.extraction), Val(state.pricebook))))]
    /\ calls' = calls
    /\ trace' = Append(trace, "match_items")
    /\ pc' = "END"

InvoiceInit ==
    /\ pc = "extract_report"
    /\ state = InvoiceInitialState
    /\ calls = <<>>
    /\ trace = <<>>

InvoiceNext == ExtractReport \/ FetchPricebook \/ MatchItems

InvoiceSpec == InvoiceInit /\ [][InvoiceNext]_vars

(***************************************************************************)
(* The emitted draft of a generator run, and the items it was built from.  *)
(***************************************************************************)
Emitted == pc = "END" /\ state.suggestion # None

Draft == Val(state.suggestion)

LineItems == Draft.line_items

ExtractedPartsOf == Val(state.extraction).parts_used

ExtractedServicesOf == Val(state.extraction).services_performed

\* The matcher's answer for the extracted item behind line i: parts come first.
MatcherAnswer(i) ==
    IF i <= Len(ExtractedPartsOf)
    THEN match_to_pricebook(ExtractedPartsOf[i].name, ExtractedPartsOf[i].unit,
                            Val(state.pricebook), "part")
    ELSE match_to_pricebook(ExtractedServicesOf[i - Len(ExtractedPartsOf)].description,
                            "hora", Val(state.pricebook), "service")

\* The name the extraction gave the item behind line i.
ExtractedName(i) ==
    IF i <= Len(ExtractedPartsOf) THEN ExtractedPartsOf[i].name
    ELSE ExtractedServicesOf[i - Len(ExtractedPartsOf)].description

Priced(item) ==
    item.unit_price # None /\ item.total # None /\ item.matched_price_item_id # None

Unpriced(item) ==
    item.unit_price = None /\ item.total = None /\ item.matched_price_item_id = None

(***************************************************************************)
(* C16: every line item of every emitted draft has needs_review true if    *)
(* and only if its unit_price is absent, or its match_confidence is below  *)
(* 0.85, or its source_type is custom.                                     *)
(***************************************************************************)
ReviewFlagLaw ==
    Emitted =>
      \A i \in DOMAIN LineItems :
        LineItems[i].needs_review <=>
          \/ LineItems[i].unit_price = None
          \/ LineItems[i].match_confidence < HIGH_CONFIDENCE_THRESHOLD
          \/ LineItems[i].source_type = "custom"

\* A draft with a line of each tier: high, medium (priced, flagged) and unpriced.
ReviewTiersWitness ==
    /\ Emitted
    /\ \E i, j, k \in DOMAIN LineItems :
         /\ ~LineItems[i].needs_review /\ LineItems[i].unit_price # None
         /\ LineItems[j].needs_review /\ LineItems[j].unit_price # None
         /\ LineItems[j].source_type = "part"
         /\ LineItems[k].needs_review /\ LineItems[k].unit_price = None

(***************************************************************************)
(* C17: the line of an extracted part or service is priced (unit_price,    *)
(* total and matched catalog id present) if and only if the matcher        *)
(* returned a best match with confidence >= 0.70; below 0.70 the line is   *)
(* an unpriced custom line (the item's own description, no matched catalog *)
(* id, flagged for review); a priced line has needs_review false exactly   *)
(* when its confidence is >= 0.85.                                         *)
(***************************************************************************)
PricedByConfidence ==
    Emitted =>
      /\ Len(LineItems) = Len(ExtractedPartsOf) + Len(ExtractedServicesOf)
      /\ \A i \in DOMAIN LineItems :
           LET matched == /\ MatcherAnswer(i).match # None
                          /\ MatcherAnswer(i).confidence >= MEDIUM_CONFIDENCE_THRESHOLD
           IN  /\ Priced(LineItems[i]) <=> matched
               /\ ~matched =>
                    /\ Unpriced(LineItems[i])
                    /\ LineItems[i].description = ExtractedName(i)
                    /\ LineItems[i].needs_review
               /\ matched =>
                    /\ LineItems[i].matched_price_item_id =
                          Some(Val(MatcherAnswer(i).match).id)
                    /\ LineItems[i].match_confidence = MatcherAnswer(i).confidence
                    /\ ~LineItems[i].needs_review <=>
                          MatcherAnswer(i).confidence >= HIGH_CONFIDENCE_THRESHOLD

\* A draft with a service priced at medium confidence, a part priced at exactly 0.85
\* and a line left unpriced although the matcher returned a (weak) match.
ConfidenceTiersWitness ==
    /\ Emitted
    /\ \E i, j, k \in DOMAIN LineItems :
         /\ LineItems[i].source_type = "service" /\ Priced(LineItems[i])
         /\ LineItems[i].needs_review
         /\ LineItems[j].source_type = "part" /\ Priced(LineItems[j])
         /\ LineItems[j].match_confidence = HIGH_CONFIDENCE_THRESHOLD
         /\ ~LineItems[j].needs_review
         /\ Unpriced(LineItems[k]) /\ MatcherAnswer(k).match # None

\* The sum of total over the lines of the draft that have one.
SumOfLineTotals ==
    Sum([i \in DOMAIN LineItems |->
            IF LineItems[i].total = None THEN 0 ELSE Val(LineItems[i].total)])

(***************************************************************************)
(* C18: in every emitted draft subtotal is the sum of line.total over the  *)
(* priced lines (lines without a total contribute nothing, 0 when no line  *)
(* is priced), tax_amount = subtotal x 0.21 and total = subtotal +         *)
(* tax_amount.                                                             *)
(***************************************************************************)
TotalsLaw ==
    Emitted =>
      /\ Draft.subtotal = SumOfLineTotals
      /\ (\A i \in DOMAIN LineItems : LineItems[i].total = None) => Draft.subtotal = 0
      /\ Draft.tax_amount * 100 = Draft.subtotal * 21
      /\ Draft.total = Draft.subtotal + Draft.tax_amount

\* A draft with two priced lines, one of them for a quantity other than 1, and an
\* unpriced line.
TotalsWitness ==
    /\ Emitted
    /\ \E i, j, k \in DOMAIN LineItems :
         /\ i # j
         /\ LineItems[i].total # None /\ LineItems[i].quantity # 10
         /\ LineItems[j].total # None
         /\ LineItems[k].total = None
    /\ Draft.subtotal > 0

\* round2: the nearest multiple of 0.01 (1000 units), ties to the even one.
Round2(x) ==
    LET q == x \div 1000
        r == x % 1000
    IN  IF r > 500 \/ (r = 500 /\ q % 2 = 1) THEN (q + 1) * 1000 ELSE q * 1000

\* At most two decimal places.
TwoPlaces(x) == x % 1000 = 0

(***************************************************************************)
(* C19: in every emitted draft the money amounts are rounded to two        *)
(* places: tax_amount = round2(subtotal x 0.21), total = subtotal +        *)
(* round2(subtotal x 0.21), and subtotal, tax_amount and total have at     *)
(* most two decimal places.                                                *)
(***************************************************************************)
TotalsRoundedToTwoPlaces ==
    Emitted =>
      /\ Draft.tax_amount = Round2((Draft.subtotal * 21) \div 100)
      /\ Draft.total = Draft.subtotal + Round2((Draft.subtotal * 21) \div 100)
      /\ TwoPlaces(Draft.subtotal)
      /\ TwoPlaces(Draft.tax_amount)
      /\ TwoPlaces(Draft.total)

\* The catalog request of the run raised or was answered with another status than 200.
FetchFailed ==
    \E i \in DOMAIN calls : calls[i].fn = "fetch_pricebook" /\ ~calls[i].ok

(***************************************************************************)
(* C20: when the catalog fetch fails (exception or non-200 response) the   *)
(* generator goes on with an empty catalog and emits a draft in which      *)
(* every extracted part and service is a line with unit_price and total    *)
(* absent and needs_review true, subtotal = tax_amount = total = 0, the    *)
(* overall match confidence is 0, and requires_review is true whenever at  *)
(* least one item was extracted.                                           *)
(***************************************************************************)
FetchFailureDraft ==
    FetchFailed =>
      /\ state.pricebook = Some(<<>>)
      /\ pc \in {"match_items", "END"}
      /\ pc = "match_items" => ENABLED MatchItems
      /\ pc = "END" =>
           /\ state.suggestion # None
           /\ Len(LineItems) = Len(ExtractedPartsOf) + Len(ExtractedServicesOf)
           /\ \A i \in DOMAIN LineItems :
                /\ LineItems[i].unit_price = None
                /\ LineItems[i].total = None
                /\ LineItems[i].needs_review
                /\ LineItems[i].description = ExtractedName(i)
           /\ Draft.subtotal = 0 /\ Draft.tax_amount = 0 /\ Draft.total = 0
           /\ Draft.overall_match_confidence.num = 0
           /\ Draft.requires_review <=> LineItems # <<>>

\* A draft emitted after a non-200 answer that carried catalog entries, for a report
\* with a part and a service.
FetchFailureWitness ==
    /\ Emitted
    /\ FetchFailed
    /\ \E i \in DOMAIN calls : calls[i].fn = "fetch_pricebook" /\ calls[i].tag = "response"
    /\ ExtractedPartsOf # <<>>
    /\ ExtractedServicesOf # <<>>
    /\ Draft.requires_review

\* The chat completion of the generator run raised or returned text that is not JSON.
CompletionFailed ==
    \E i \in DOMAIN calls : calls[i].fn = "chat_completion" /\ ~calls[i].ok

(***************************************************************************)
(* C21: when the chat completion or the deserialization of its response    *)
(* fails, the generator does not fail: the emitted draft carries an empty  *)
(* report (no parts, no services) whose overall_confidence is 0.           *)
(***************************************************************************)
FailedCompletionEmptyReport ==
    CompletionFailed =>
      /\ pc \in {"fetch_pricebook", "match_items", "END"}
      /\ Val(state.extraction).parts_used = <<>>
      /\ Val(state.extraction).services_performed = <<>>
      /\ Val(state.extraction).overall_confidence = 0
      /\ pc = "END" => Draft.extraction = Val(state.extraction)

\* The extracted item behind line i: parts come first.
ExtractedItem(i) ==
    IF i <= Len(ExtractedPartsOf) THEN ExtractedPartsOf[i]
    ELSE ExtractedServicesOf[i - Len(ExtractedPartsOf)]

(***************************************************************************)
(* C22: the draft has exactly one line per extracted part, in extraction   *)
(* order, followed by exactly one line per extracted service, in           *)
(* extraction order, each carrying the source text of its item, whatever   *)
(* the match outcome.                                                      *)
(***************************************************************************)
LinesFollowExtraction ==
    Emitted =>
      /\ Len(LineItems) = Len(ExtractedPartsOf) + Len(ExtractedServicesOf)
      /\ \A i \in DOMAIN LineItems :
           /\ LineItems[i].source_text = ExtractedItem(i).source_text
           /\ LineItems[i].source_type =
                 IF i <= Len(ExtractedPartsOf) THEN "part" ELSE "service"
           /\ i <= Len(ExtractedPartsOf) =>
                 LineItems[i].quantity = ExtractedItem(i).quantity
           /\ i > Len(ExtractedPartsOf) =>
                 LineItems[i].quantity = Hours(ExtractedItem(i))

\* Two different parts, the first unmatched and the second priced, then a service.
LinesFollowExtractionWitness ==
    /\ Emitted
    /\ Len(ExtractedPartsOf) = 2
    /\ Len(ExtractedServicesOf) = 1
    /\ ExtractedPartsOf[1].source_text # ExtractedPartsOf[2].source_text
    /\ Len(LineItems) = 3
    /\ LineItems[1].matched_price_item_id = None
    /\ LineItems[2].matched_price_item_id # None
    /\ LineItems[3].source_type = "service"

(***************************************************************************)
(* The catalog matcher on its own: MatcherSpec draws the arguments of      *)
(* match_to_pricebook and applies it once.  Its catalogs are larger than   *)
(* those of a generator run, so that more than four candidates survive and *)
(* some of them score the same.                                            *)
(***************************************************************************)
MatcherCatalog ==
    << CatalogEntry("p1", <<"Filtro", "de", "aire">>, <<>>, 1055, "Unidad", "PRODUCT"),
       CatalogEntry("s2", <<"limpieza", "filtro", "aire">>, <<>>, 8025, "visita",
                    "SERVICE"),
       CatalogEntry("p2", <<"filtro", "aire", "split">>, <<>>, 2000, "unidad", "PRODUCT"),
       CatalogEntry("p5", <<"filtro", "aire", "split">>, <<>>, 2100, "unidad", "PRODUCT"),
       CatalogEntry("p3", <<"filtro", "aire", "split", "inverter">>, <<>>, 2550,
                    "unidad", "PRODUCT"),
       CatalogEntry("p4", <<"repuesto">>, <<"filtro", "aire,">>, 990, "metro", "PRODUCT"),
       CatalogEntry("s1", <<"carga", "de", "Gas">>, <<>>, 15000, "hora", "SERVICE"),
       CatalogEntry("p6", <<"filtro", "aire">>, <<>>, 1200, "kg", "PRODUCT") >>

Reverse(s) == [i \in DOMAIN s |-> s[Len(s) + 1 - i]]

\* The entries of m at the positions in S, in the order of m.
SubCatalog(m, S) ==
    [k \in 1..Cardinality(S) |->
        m[CHOOSE i \in S : Cardinality({ j \in S : j < i }) = k - 1]]

\* Every selection of entries, in the order of the list and in the opposite order.
MatcherCatalogs ==
    { SubCatalog(MatcherCatalog, S) : S \in SUBSET DOMAIN MatcherCatalog }
    \cup { SubCatalog(Reverse(MatcherCatalog), S) : S \in SUBSET DOMAIN MatcherCatalog }

MatcherNames ==
    { <<"filtro", "de", "aire">>, <<"filtro", "aire", "split">>, <<"capacitor">>,
      <<"carga", "gas">> }

MatcherUnits == {"unidad", "Unidad", "kg"}

ItemTypes == {"part", "service", "any"}

MatcherInputs ==
    [extracted_name : MatcherNames, extracted_unit : MatcherUnits,
     pricebook : MatcherCatalogs, item_type : ItemTypes, result : { None }]

MatcherInit ==
    /\ pc = "match_to_pricebook"
    /\ state \in MatcherInputs
    /\ calls = <<>>
    /\ trace = <<>>

Match ==
    /\ pc = "match_to_pricebook"
    /\ state' = [state EXCEPT !.result =
                    Some(match_to_pricebook(state.extracted_name, state.extracted_unit,
                                            state.pricebook, state.item_type))]
    /\ trace' = Append(trace, "match_to_pricebook")
    /\ pc' = "END"
    /\ UNCHANGED calls

MatcherNext == Match

MatcherSpec == MatcherInit /\ [][MatcherNext]_vars

\* The answer of the matcher once it has been applied, and what it was applied to.
Matched == pc = "END" /\ state.result # None

MatcherResult == Val(state.result)

\* The best match followed by the alternatives.
Returned ==
    (IF MatcherResult.match = None THEN <<>> ELSE <<Val(MatcherResult.match)>>)
    \o MatcherResult.alternatives

\* The catalog position of a returned candidate (a catalog lists an id once).
PositionOf(c) == CHOOSE i \in DOMAIN state.pricebook : state.pricebook[i].id = c.id

ScoreAt(i) ==
    total_score(state.extracted_name, state.extracted_unit, state.pricebook[i])

WantedType ==
    IF state.item_type = "part" THEN "PRODUCT"
    ELSE IF state.item_type = "service" THEN "SERVICE" ELSE "ANY"

\* The positions that are scored: those of the wanted type, or all of them.
Pool ==
    LET typed == { i \in DOMAIN state.pricebook : state.pricebook[i].type = WantedType }
    IN  IF typed = {} THEN DOMAIN state.pricebook ELSE typed

Survivors == { i \in Pool : ScoreAt(i) > MinScore }

ReturnedPositions == { PositionOf(Returned[k]) : k \in DOMAIN Returned }

(***************************************************************************)
(* C23: the best match is the highest-scoring candidate among those that   *)
(* score strictly above 0.2 (absent, with confidence 0 and no              *)
(* alternatives, when none survives or the catalog is empty); confidence   *)
(* is the best match's score and lies in [0,1]; the alternatives are the   *)
(* next at most three candidates in descending score order; candidates     *)
(* with equal scores keep catalog order; nothing returned scores <= 0.2.   *)
(***************************************************************************)
BestMatchLaw ==
    Matched =>
      /\ Survivors = {} =>
           /\ MatcherResult.match = None
           /\ MatcherResult.confidence = 0
           /\ MatcherResult.alternatives = <<>>
      /\ Survivors # {} =>
           /\ MatcherResult.match # None
           /\ \A i \in Survivors : ScoreAt(i) <= Val(MatcherResult.match).score
           /\ MatcherResult.confidence = Val(MatcherResult.match).score
           /\ MatcherResult.confidence \in 0..ScoreOne
           /\ Len(MatcherResult.alternatives) = Min(3, Cardinality(Survivors) - 1)
      /\ \A k \in DOMAIN Returned :
           /\ \E i \in Survivors : state.pricebook[i].id = Returned[k].id
           /\ Returned[k].score = ScoreAt(PositionOf(Returned[k]))
           /\ Returned[k].score > MinScore
      /\ \A k, l \in DOMAIN Returned :
           k < l =>
             /\ Returned[k].score >= Returned[l].score
             /\ Returned[k].score = Returned[l].score =>
                  PositionOf(Returned[k]) < PositionOf(Returned[l])
      /\ \A i \in Survivors \ ReturnedPositions :
           \A k \in DOMAIN Returned :
             /\ Returned[k].score >= ScoreAt(i)
             /\ Returned[k].score = ScoreAt(i) => PositionOf(Returned[k]) < i

\* Five candidates survive, so one is cut off, and two returned ones score the same.
BestMatchWitness ==
    /\ Matched
    /\ Cardinality(Survivors) >= 5
    /\ Len(MatcherResult.alternatives) = 3
    /\ \E k, l \in DOMAIN Returned : k < l /\ Returned[k].score = Returned[l].score
    /\ \E i \in Pool : ScoreAt(i) <= MinScore

(***************************************************************************)
(* C24: with item type part (service) only the PRODUCT (SERVICE) entries   *)
(* are scored whenever the catalog has one, so the best match and the      *)
(* alternatives have that type; only when it has none is the whole catalog *)
(* scored.                                                                 *)
(***************************************************************************)
TypeFilterLaw ==
    Matched /\ state.item_type \in {"part", "service"} =>
      LET typed == SelectSeq(state.pricebook, LAMBDA p : p.type = WantedType)
      IN  /\ typed # <<>> =>
                /\ \A k \in DOMAIN Returned : Returned[k].type = WantedType
                /\ MatcherResult = match_to_pricebook(state.extracted_name,
                                      state.extracted_unit, typed, "any")
          /\ typed = <<>> =>
                MatcherResult = match_to_pricebook(state.extracted_name,
                                      state.extracted_unit, state.pricebook, "any")

\* A part is matched to a product although a service of the catalog scores higher.
TypeFilterWitness ==
    /\ Matched
    /\ state.item_type = "part"
    /\ MatcherResult.match # None
    /\ Val(MatcherResult.match).type = "PRODUCT"
    /\ \E i \in DOMAIN state.pricebook :
          /\ state.pricebook[i].type = "SERVICE"
          /\ ScoreAt(i) > MatcherResult.confidence

\* Two units are equal when compared case-insensitively.
SameUnit(u, v) == u = v \/ {u, v} = {"unidad", "Unidad"}

\* A unit no catalog entry has.
OtherUnit == "litro"

\* The scores of entry i for the extracted name with its own unit in the spelling
\* u, and with a unit that differs.
ScoreWithUnit(i, u) == total_score(state.extracted_name, u, state.pricebook[i])

ScoreWithoutUnit(i) == total_score(state.extracted_name, OtherUnit, state.pricebook[i])

(***************************************************************************)
(* C25 as stated: for the same extracted name and catalog entry, the score *)
(* with a case-insensitively equal unit is strictly greater than the score *)
(* with a different unit, by exactly 0.1 unless the clamp at 1.0 cuts the  *)
(* sum.                                                                    *)
(***************************************************************************)
UnitMatchStrictlyGreater ==
    Matched =>
      \A i \in DOMAIN state.pricebook :
        \A u \in MatcherUnits :
          SameUnit(u, state.pricebook[i].unit) =>
            /\ ScoreWithUnit(i, u) > ScoreWithoutUnit(i)
            /\ ScoreWithUnit(i, u) = Min(ScoreOne, ScoreWithoutUnit(i) + UnitBonus)

(***************************************************************************)
(* C25 amended: the score with an equal unit is min(1.0, score with a      *)
(* different unit + 0.1): strictly greater whenever the latter is below    *)
(* 1.0, by exactly 0.1 whenever it is at most 0.9, and equal to it when it *)
(* is already 1.0.  The scores the matcher returns follow the same rule.   *)
(***************************************************************************)
UnitBonusLaw ==
    Matched =>
      /\ \A i \in DOMAIN state.pricebook :
           \A u \in MatcherUnits :
             SameUnit(u, state.pricebook[i].unit) =>
               /\ ScoreWithUnit(i, u) = Min(ScoreOne, ScoreWithoutUnit(i) + UnitBonus)
               /\ ScoreWithoutUnit(i) < ScoreOne =>
                    ScoreWithUnit(i, u) > ScoreWithoutUnit(i)
               /\ ScoreWithoutUnit(i) <= ScoreOne - UnitBonus =>
                    ScoreWithUnit(i, u) - ScoreWithoutUnit(i) = UnitBonus
               /\ ScoreWithoutUnit(i) = ScoreOne => ScoreWithUnit(i, u) = ScoreOne
      /\ \A k \in DOMAIN Returned :
           Returned[k].score =
             IF SameUnit(state.extracted_unit, Returned[k].unit)
             THEN Min(ScoreOne, ScoreWithoutUnit(PositionOf(Returned[k])) + UnitBonus)
             ELSE ScoreWithoutUnit(PositionOf(Returned[k]))

\* The best match has the extracted unit in another case and gained exactly 0.1,
\* and an alternative with a different unit gained nothing.
UnitBonusWitness ==
    /\ Matched
    /\ MatcherResult.match # None
    /\ Val(MatcherResult.match).unit # state.extracted_unit
    /\ SameUnit(state.extracted_unit, Val(MatcherResult.match).unit)
    /\ MatcherResult.confidence =
          ScoreWithoutUnit(PositionOf(Val(MatcherResult.match))) + UnitBonus
    /\ \E k \in DOMAIN MatcherResult.alternatives :
          /\ ~SameUnit(state.extracted_unit, MatcherResult.alternatives[k].unit)
          /\ MatcherResult.alternatives[k].score =
                ScoreWithoutUnit(PositionOf(MatcherResult.alternatives[k]))

(***************************************************************************)
(* The Support Router (app/workflows/support_bot.py): classify, answer,    *)
(* and escalate when the answer asks for it.  SupportSpec runs it on the   *)
(* same variables.  Texts are sequences of words, written without accents. *)
(***************************************************************************)
Message(role, content) == [role |-> role, content |-> content]

\* The transcripts process_support_message is called with.
Conversations ==
    { <<>>,
      << Message("user", <<"cuanto", "cuesta">>) >>,
      << Message("user", <<"hola">>),
         Message("assistant", <<"en", "que", "te", "ayudo">>),
         Message("user", <<"no", "anda", "la", "app">>) >> }

\* initial_state of process_support_message.
SupportInitialState(messages) ==
    [messages |-> messages, user_id |-> Some("u1"), organization_id |-> None,
     issue_category |-> None, resolved |-> FALSE, escalate_to_human |-> FALSE,
     session_id |-> "s1", last_response |-> None]

\* The content of the last message whose role is user, "" (no words) without one.
last_user_message(messages) ==
    LET users == { i \in DOMAIN messages : messages[i].role = "user" }
    IN  IF users = {} THEN <<>>
        ELSE messages[CHOOSE i \in users : \A j \in users : j <= i].content

valid_categories ==
    {"ventas", "caracteristicas", "facturacion", "pagos", "whatsapp", "cuenta",
     "app_movil", "otro"}

\* What the classifier may answer: a category, a category in another spelling,
\* something else, or nothing.
ClassifierContents ==
    valid_categories \cup {" Ventas\n", "CUENTA", "precios", "ventas.", ""}

\* response.content.strip().lower() on the contents above.
StripLower(content) ==
    CASE content = " Ventas\n" -> "ventas"
      [] content = "CUENTA" -> "cuenta"
      [] OTHER -> content

\* The completion of a chain: it raised, or it returned content.
ChainOutcomes(contents) == [raised : BOOLEAN, content : contents]

\* Mutant: the category is stored as the classifier spelled it out.
classify_issue_unvalidated(st, o) ==
    IF o.raised
    THEN NodeResult(st, << Call("classify", "chain.ainvoke",
                                last_user_message(st.messages), FALSE, None) >>, TRUE)
    ELSE NodeResult([st EXCEPT !.issue_category = Some(StripLower(o.content))],
                    << Call("classify", "chain.ainvoke",
                            last_user_message(st.messages), TRUE, Some(o.content)) >>,
                    FALSE)

classify_issue(st, o) ==
    IF o.raised
    THEN NodeResult(st, << Call("classify", "chain.ainvoke",
                                last_user_message(st.messages), FALSE, None) >>, TRUE)
    ELSE NodeResult([st EXCEPT !.issue_category =
                        Some(IF StripLower(o.content) \in valid_categories
                             THEN StripLower(o.content) ELSE "otro")],
                    << Call("classify", "chain.ainvoke",
                            last_user_message(st.messages), TRUE, Some(o.content)) >>,
                    FALSE)

\* FAQ_DATABASE.get(category, FAQ_DATABASE["otro"]): the section that is quoted.
FaqSections == valid_categories

get_faqs_for_category(category) ==
    IF category \in FaqSections THEN category ELSE "otro"

escalation_phrases ==
    { <<"voy", "a", "escalar">>, <<"necesito", "escalar">>, <<"no", "puedo", "resolver">>,
      <<"no", "tengo", "esa", "informacion">>, <<"te", "contactara", "un", "humano">>,
      <<"equipo", "de", "soporte", "te", "contactara">>,
      <<"un", "agente", "te", "contactara">>,
      <<"no", "puedo", "ayudarte", "con", "eso", "especificamente">> }

\* The replies the answer chain may produce.
Answers ==
    { <<"El", "plan", "cuesta", "25", "dolares">>,
      <<"Voy", "a", "escalar", "tu", "consulta">>,
      <<"Perdon,", "No", "Tengo", "Esa", "Informacion">>,
      <<"Nuestro", "equipo", "de", "soporte", "responde", "rapido">>,
      <<>> }

\* str.lower() on the words of the replies.
LowerWord(w) ==
    CASE w = "El" -> "el"
      [] w = "Voy" -> "voy"
      [] w = "Perdon," -> "perdon,"
      [] w = "No" -> "no"
      [] w = "Tengo" -> "tengo"
      [] w = "Esa" -> "esa"
      [] w = "Informacion" -> "informacion"
      [] w = "Nuestro" -> "nuestro"
      [] OTHER -> w

Lower(text) == [i \in DOMAIN text |-> LowerWord(text[i])]

\* phrase in text
Contains(text, phrase) ==
    \E k \in 0..(Len(text) - Len(phrase)) :
       SubSeq(text, k + 1, k + Len(phrase)) = phrase

\* The update the answer node returns, merged into the state.
answered(st, answer, escalate) ==
    [st EXCEPT !.messages = Append(st.messages, Message("assistant", answer)),
               !.last_response = Some(answer),
               !.escalate_to_human = escalate,
               !.resolved = ~escalate]

\* Mutant: the reply is searched for escalation phrases in every category.
provide_answer_any_category(st, o) ==
    IF o.raised
    THEN NodeResult(st, << Call("answer", "chain.ainvoke",
                                get_faqs_for_category(Val(st.issue_category)),
                                FALSE, None) >>, TRUE)
    ELSE NodeResult(answered(st, o.content,
                             \E phrase \in escalation_phrases :
                                Contains(Lower(o.content), phrase)),
                    << Call("answer", "chain.ainvoke",
                            get_faqs_for_category(Val(st.issue_category)),
                            TRUE, Some(o.content)) >>,
                    FALSE)

provide_answer(st, o) ==
    IF o.raised
    THEN NodeResult(st, << Call("answer", "chain.ainvoke",
                                get_faqs_for_category(Val(st.issue_category)),
                                FALSE, None) >>, TRUE)
    ELSE NodeResult(answered(st, o.content,
                             IF Val(st.issue_category) \in {"ventas", "caracteristicas"}
                             THEN FALSE
                             ELSE \E phrase \in escalation_phrases :
                                     Contains(Lower(o.content), phrase)),
                    << Call("answer", "chain.ainvoke",
                            get_faqs_for_category(Val(st.issue_category)),
                            TRUE, Some(o.content)) >>,
                    FALSE)

\* Mutant: the conditional edge after answer always leads to the end.
should_escalate_never(st) == "end"

\* Mutant: the ticket request is made outside try/except; the node is left by
\* the exception of a failed request.
escalate_to_support_unguarded(st, post_ok) ==
    NodeResult(IF post_ok
               THEN [st EXCEPT !.messages =
                                  Append(st.messages,
                                         Message("assistant",
                                                 <<"Tu", "consulta", "fue", "escalada",
                                                   "a", "nuestro", "equipo", "de",
                                                   "soporte.">>)),
                               !.last_response =
                                  Some(<<"Tu", "consulta", "fue", "escalada", "a",
                                         "nuestro", "equipo", "de", "soporte.">>)]
               ELSE st,
               << Call("escalate", "post", "/api/support/report", post_ok, None) >>,
               ~post_ok)

escalation_message ==
    <<"Tu", "consulta", "fue", "escalada", "a", "nuestro", "equipo", "de", "soporte.">>

\* The ticket request is made inside try/except: post_ok = FALSE is a raise.
escalate_to_support(st, post_ok) ==
    NodeResult([st EXCEPT !.messages = Append(st.messages,
                                          Message("assistant", escalation_message)),
                          !.last_response = Some(escalation_message)],
               << Call("escalate", "post", "/api/support/report", post_ok, None) >>,
               FALSE)

should_escalate(st) == IF st.escalate_to_human THEN "escalate" ELSE "end"

\* The dictionary process_support_message returns for the final state.
support_result(result) ==
    [response |-> Val(result.last_response),
     category |-> result.issue_category,
     escalated |-> result.escalate_to_human,
     resolved |-> result.resolved,
     messages |-> result.messages]

\* One node of the graph ran; an exception that leaves it ends the run.
SupportStep(node, r, next) ==
    /\ state' = r.st
    /\ calls' = calls \o r.calls
    /\ trace' = Append(trace, node)
    /\ pc' = IF r.raised THEN "RAISED" ELSE next

Classify ==
    /\ pc = "classify"
    /\ \E o \in ChainOutcomes(ClassifierContents) :
         SupportStep("classify", classify_issue(state, o), "answer")

Answer ==
    /\ pc = "answer"
    /\ \E o \in ChainOutcomes(Answers) :
         LET r == provide_answer(state, o)
         IN  SupportStep("answer", r,
                         IF should_escalate(r.st) = "escalate" THEN "escalate" ELSE "END")

Escalate ==
    /\ pc = "escalate"
    /\ \E post_ok \in BOOLEAN :
         SupportStep("escalate", escalate_to_support(state, post_ok), "END")

SupportInit ==
    /\ pc = "classify"
    /\ \E messages \in Conversations : state = SupportInitialState(messages)
    /\ calls = <<>>
    /\ trace = <<>>

SupportNext == Classify \/ Answer \/ Escalate

SupportSpec == SupportInit /\ [][SupportNext]_vars

\* The run of the Support Router returned, and what it returned.
SupportEnded == pc = "END"

SupportResult == support_result(state)

\* The classify node has returned.
Classified == Executed("classify") /\ pc # "RAISED"

\* The content of the classifier's completion and of the answer's completion.
ClassifierContent ==
    Val(calls[CHOOSE i \in DOMAIN calls : calls[i].node = "classify"].ret)

AnswerContent ==
    Val(calls[CHOOSE i \in DOMAIN calls : calls[i].node = "answer"].ret)

SalesCategories == {"ventas", "caracteristicas"}

\* The reply holds one of the explicit escalation phrases, in any letter case.
HasEscalationPhrase(text) ==
    \/ \E k \in DOMAIN text :
          k + 2 <= Len(text) /\ text[k] \in {"voy", "Voy"} /\ text[k + 1] = "a"
          /\ text[k + 2] = "escalar"
    \/ \E k \in DOMAIN text :
          k + 3 <= Len(text) /\ text[k] \in {"no", "No"}
          /\ text[k + 1] \in {"tengo", "Tengo"} /\ text[k + 2] \in {"esa", "Esa"}
          /\ text[k + 3] \in {"informacion", "Informacion"}

(***************************************************************************)
(* C29: once a message is classified as ventas or caracteristicas the      *)
(* escalate node is never executed, and the result of the run has          *)
(* escalated = false and resolved = true, whatever the text of the answer. *)
(***************************************************************************)
SalesNeverEscalate ==
    Classified /\ Val(state.issue_category) \in SalesCategories =>
      /\ pc # "escalate"
      /\ ~Executed("escalate")
      /\ Executed("answer") => ~state.escalate_to_human /\ state.resolved
      /\ SupportEnded => ~SupportResult.escalated /\ SupportResult.resolved

\* A sales question was answered with a text holding an escalation phrase.
SalesNeverEscalateWitness ==
    /\ SupportEnded
    /\ SupportResult.category = Some("ventas")
    /\ HasEscalationPhrase(AnswerContent)
    /\ ~SupportResult.escalated
    /\ SupportResult.resolved

\* The spellings of a category that strip().lower() turns into it.
RecognizedSpellings == valid_categories \cup {" Ventas\n", "CUENTA"}

(***************************************************************************)
(* C30: after the classify node issue_category is one of ventas,           *)
(* caracteristicas, facturacion, pagos, whatsapp, cuenta, app_movil, otro; *)
(* a recognized token is kept and any other token becomes otro.            *)
(***************************************************************************)
CategoryClosed ==
    Classified =>
      /\ state.issue_category # None
      /\ Val(state.issue_category) \in
            {"ventas", "caracteristicas", "facturacion", "pagos", "whatsapp",
             "cuenta", "app_movil", "otro"}
      /\ ClassifierContent \in valid_categories =>
            Val(state.issue_category) = ClassifierContent
      /\ ClassifierContent \notin RecognizedSpellings =>
            Val(state.issue_category) = "otro"

\* The classifier answered with a word outside the set and the category is otro.
CategoryClosedWitness ==
    /\ Classified
    /\ ClassifierContent = "precios"
    /\ state.issue_category = Some("otro")

(***************************************************************************)
(* Claims on the runs of the Support Router (SupportSpec).                 *)
(***************************************************************************)
\* The node that appended the last message of the transcript in this run.
AnswerReturned == Executed("answer") /\ ~(LastNode = "answer" /\ pc = "RAISED")

\* What the step of a node does to the transcript.
TranscriptStep ==
    /\ pc = "classify" => state'.messages = state.messages
    /\ pc = "answer" /\ pc' = "RAISED" => state'.messages = state.messages
    /\ pc = "answer" /\ pc' # "RAISED" =>
          /\ state'.messages =
                Append(state.messages, Message("assistant", Val(calls'[Len(calls')].ret)))
          /\ pc' = (IF state'.escalate_to_human THEN "escalate" ELSE "END")
    /\ pc = "escalate" =>
          /\ state'.messages =
                Append(state.messages, Message("assistant", escalation_message))
          /\ pc' = "END"

\* The nodes run in the order of the graph, and the result of a run that ended.
RouterRun ==
    /\ trace \in { <<>>, <<"classify">>, <<"classify", "answer">>,
                    <<"classify", "answer", "escalate">> }
    /\ pc = "classify" <=> trace = <<>>
    /\ pc = "answer" <=> (trace = <<"classify">> /\ pc # "RAISED")
    /\ AnswerReturned =>
          ((pc = "escalate" \/ Executed("escalate")) <=> state.escalate_to_human)
    /\ SupportEnded =>
          /\ AnswerReturned
          /\ Executed("escalate") <=> SupportResult.escalated
          /\ SupportResult.resolved = ~SupportResult.escalated
          /\ SupportResult.messages # <<>>
          /\ SupportResult.messages[Len(SupportResult.messages)] =
                Message("assistant", SupportResult.response)
          /\ SupportResult.response =
                (IF SupportResult.escalated THEN escalation_message ELSE AnswerContent)
          /\ \E input \in Conversations :
                /\ calls[1].tag = last_user_message(input)
                /\ SupportResult.messages =
                      input \o << Message("assistant", AnswerContent) >>
                            \o (IF SupportResult.escalated
                                THEN << Message("assistant", escalation_message) >>
                                ELSE <<>>)

(***************************************************************************)
(* C31: a run executes classify, then answer, then escalate if and only if *)
(* answer set escalate_to_human, then ends; in the result resolved is the  *)
(* negation of escalated, the response is the last assistant message       *)
(* appended (the reassurance message when escalated, the answer            *)
(* otherwise), and the transcript is the input extended by one message     *)
(* when not escalated and by two when escalated.                           *)
(***************************************************************************)
RouterRunLaw == [](RouterRun) /\ [][TranscriptStep]_vars

\* A run over a transcript of three messages ended after escalate with five.
RouterRunWitness ==
    /\ SupportEnded
    /\ trace = <<"classify", "answer", "escalate">>
    /\ SupportResult.escalated
    /\ ~SupportResult.resolved
    /\ Len(SupportResult.messages) = 5
    /\ SupportResult.response = escalation_message

\* The ticket request of the escalate node failed.
TicketFailed ==
    \E i \in DOMAIN calls :
       calls[i].node = "escalate" /\ calls[i].fn = "post" /\ ~calls[i].ok

(***************************************************************************)
(* C32: when the request to the support-ticket collaborator fails in the   *)
(* escalate node, the node still appends the fixed reassurance message,    *)
(* the run ends normally, and the result has escalated = true and          *)
(* resolved = false.                                                       *)
(***************************************************************************)
TicketFailureSwallowed ==
    TicketFailed =>
      /\ SupportEnded
      /\ LastNode = "escalate"
      /\ state.messages[Len(state.messages)] = Message("assistant", escalation_message)
      /\ SupportResult.response = escalation_message
      /\ SupportResult.escalated
      /\ ~SupportResult.resolved

\* A run whose ticket request failed has ended with the reassurance message.
TicketFailureWitness ==
    /\ TicketFailed
    /\ SupportEnded
    /\ SupportResult.response = escalation_message
    /\ SupportResult.escalated
    /\ Len(calls) = 3

(***************************************************************************)
(* The phone-number normalizer (apps/web/scripts/parse-gas-pdf.py).        *)
(* Python strings are strings; a character is a string of length one.      *)
(* First the operations of Python's str that the script uses.              *)
(***************************************************************************)
Digits == {"0", "1", "2", "3", "4", "5", "6", "7", "8", "9"}

Whitespace == {" ", "\n", "\t", "\r"}

\* s[i-1:i] of Python: the character at position i counted from 1, "" outside s.
CharAt(s, i) == IF i \in 1..Len(s) THEN SubSeq(s, i, i) ELSE ""

\* s[i:] of Python, i counted from 0.
From(s, i) == SubSeq(s, i + 1, Len(s))

startswith(s, prefix) ==
    Len(s) >= Len(prefix) /\ SubSeq(s, 1, Len(prefix)) = prefix

\* The k-th element of a set of positions, in increasing order.
Nth(positions, k) ==
    CHOOSE i \in positions : Cardinality({ j \in positions : j < i }) = k - 1

\* The length of the run of characters of the set that starts at position i.
RunLength(s, i, set) ==
    LET stops == { j \in i..Len(s) : CharAt(s, j) \notin set }
    IN  IF stops = {} THEN Len(s) + 1 - i ELSE Nth(stops, 1) - i

\* The characters of s that are in the set, as a string.
keep(s, set) ==
    LET f[i \in 0..Len(s)] ==
          IF i = 0 THEN ""
          ELSE f[i - 1] \o (IF CharAt(s, i) \in set THEN CharAt(s, i) ELSE "")
    IN  f[Len(s)]

\* str.strip()
strip(s) ==
    LET kept == { i \in 1..Len(s) : CharAt(s, i) \notin Whitespace }
    IN  IF kept = {} THEN ""
        ELSE SubSeq(s, Nth(kept, 1), Nth(kept, Cardinality(kept)))

\* str.replace(old, new): the occurrences of old from left to right, not overlapping.
replace(s, old, new) ==
    LET f[i \in 1..(Len(s) + 1)] ==
          IF i > Len(s) THEN ""
          ELSE IF i + Len(old) - 1 <= Len(s) /\ SubSeq(s, i, i + Len(old) - 1) = old
               THEN new \o f[i + Len(old)]
               ELSE CharAt(s, i) \o f[i + 1]
    IN  f[1]

\* str.split(sep) for a separator of one character.
split(s, sep) ==
    LET at == { i \in 1..Len(s) : CharAt(s, i) = sep }
        n == Cardinality(at)
        cut(k) == IF k = 0 THEN 0 ELSE IF k = n + 1 THEN Len(s) + 1 ELSE Nth(at, k)
    IN  [k \in 1..(n + 1) |-> SubSeq(s, cut(k - 1) + 1, cut(k) - 1)]

\* str.split(): the runs of characters that are not whitespace.
split_whitespace(s) ==
    LET starts == { i \in 1..Len(s) :
                      /\ CharAt(s, i) \notin Whitespace
                      /\ i = 1 \/ CharAt(s, i - 1) \in Whitespace }
        NotSpace == { CharAt(s, i) : i \in 1..Len(s) } \ Whitespace
    IN  [k \in 1..Cardinality(starts) |->
            SubSeq(s, Nth(starts, k),
                   Nth(starts, k) + RunLength(s, Nth(starts, k), NotSpace) - 1)]

\* "".join(ss)
join(ss) ==
    LET f[i \in 0..Len(ss)] == IF i = 0 THEN "" ELSE f[i - 1] \o ss[i]
    IN  f[Len(ss)]

(***************************************************************************)
(* format_phone_for_whatsapp                                               *)
(***************************************************************************)
\* re.sub(r'[^\d]', '', s)
digits_only(s) == keep(s, Digits)

\* if cleaned.startswith(prefix): cleaned = cleaned[len(prefix):]
drop_prefix(s, prefix) == IF startswith(s, prefix) THEN From(s, Len(prefix)) ELSE s

\* None, or Some("+549" followed by what is left of the input).
format_phone_for_whatsapp(phone, default_area_code) ==
    LET cleaned == keep(strip(phone), Digits \cup {"+"})
        national == drop_prefix(drop_prefix(drop_prefix(drop_prefix(
                        cleaned, "+"), "54"), "9"), "0")
        mobile == IF startswith(national, "15") /\ Len(national) >= 9
                  THEN IF Len(national) - 2 <= 8
                       THEN default_area_code \o From(national, 2)
                       ELSE From(national, 2)
                  ELSE national
        full == IF Len(mobile) <= 8 /\ Len(mobile) >= 6
                THEN default_area_code \o mobile ELSE mobile
    IN  IF phone = "" \/ strip(phone) \in {"-", "", "Email"} THEN None
        ELSE IF cleaned \in {"", "+"} THEN None
        ELSE IF Len(full) < 9 \/ Len(full) > 12 THEN None
        ELSE Some("+549" \o full)

(***************************************************************************)
(* parse_multiple_phones                                                   *)
(***************************************************************************)
\* re.sub(r'\(\d+\)', '', s): parenthesised numbers are removed.
remove_annotations(s) ==
    LET f[i \in 1..(Len(s) + 1)] ==
          IF i > Len(s) THEN ""
          ELSE LET d == RunLength(s, i + 1, Digits)
               IN  IF CharAt(s, i) = "(" /\ d >= 1 /\ CharAt(s, i + 1 + d) = ")"
                   THEN f[i + d + 2]
                   ELSE CharAt(s, i) \o f[i + 1]
    IN  f[1]

\* The digits the area-code patterns ^(?:0)?(\d{3,4}) capture when the digits at the
\* start of s end where the separator begins: None when they do not match.
area_code_group(s) ==
    LET r == RunLength(s, 1, Digits)
    IN  IF startswith(s, "0") /\ r - 1 \in {3, 4} THEN Some(SubSeq(s, 2, r))
        ELSE IF r \in {3, 4} THEN Some(SubSeq(s, 1, r))
        ELSE None

\* re.match(r'^(?:0)?(\d{3,4})-', s): group 1 or None.
hyphen_match(s) ==
    IF CharAt(s, RunLength(s, 1, Digits) + 1) = "-" THEN area_code_group(s) ELSE None

\* re.match(r'^(?:0)?(\d{3,4})\s+(\d{5,})', s): <<group 1, group 2>> or None.
space_match(s) ==
    LET r == RunLength(s, 1, Digits)
        w == RunLength(s, r + 1, Whitespace)
        d == RunLength(s, r + w + 1, Digits)
    IN  IF w >= 1 /\ d >= 5 /\ area_code_group(s) # None
        THEN Some(<<Val(area_code_group(s)), SubSeq(s, r + w + 1, r + w + d)>>)
        ELSE None

\* One round of the first loop: whether it ends the loop, and the area code it sets
\* (None when a part of ten digits or more ends the loop and sets nothing).
first_pass(part_stripped) ==
    LET clean_check == digits_only(part_stripped)
    IN  IF hyphen_match(part_stripped) # None
        THEN [break |-> TRUE, code |-> hyphen_match(part_stripped)]
        ELSE IF /\ space_match(part_stripped) # None
                /\ Len(Val(space_match(part_stripped))[2]) >= 6
        THEN [break |-> TRUE, code |-> Some(Val(space_match(part_stripped))[1])]
        ELSE IF Len(clean_check) < 10 THEN [break |-> FALSE, code |-> None]
        ELSE IF startswith(clean_check, "0")
        THEN IF Len(clean_check) = 11 /\ CharAt(clean_check, 2) = "3"
             THEN [break |-> TRUE, code |-> Some(SubSeq(clean_check, 2, 5))]
             ELSE [break |-> TRUE, code |-> Some(SubSeq(clean_check, 2, 4))]
        ELSE IF startswith(clean_check, "549")
        THEN [break |-> TRUE, code |-> Some(SubSeq(clean_check, 4, 6))]
        ELSE IF Len(clean_check) = 10
        THEN [break |-> TRUE, code |-> Some(SubSeq(clean_check, 1, 3))]
        ELSE [break |-> TRUE, code |-> None]

\* The area code after the first loop: set by the first part that ends the loop.
context_area_code(parts, default_area_code) ==
    LET hits == { i \in DOMAIN parts : first_pass(strip(parts[i])).break }
    IN  IF hits = {} THEN default_area_code
        ELSE LET code == first_pass(strip(parts[Nth(hits, 1)])).code
             IN  IF code = None THEN default_area_code ELSE Val(code)

\* re.match(r'^(\d{6,8})[- ]?154[- ]?(\d{5,8})$', part): <<group 1, group 2>> or
\* None; the longest group 1 is tried first.
embedded_154_match(part) ==
    LET at154(n) == IF CharAt(part, n + 1) \in {"-", " "}
                    THEN From(part, n + 1) ELSE From(part, n)
        mobile(n) == IF CharAt(at154(n), 4) \in {"-", " "}
                     THEN From(at154(n), 4) ELSE From(at154(n), 3)
        matches(n) == /\ RunLength(part, 1, Digits) >= n
                      /\ startswith(at154(n), "154")
                      /\ Len(mobile(n)) \in 5..8
                      /\ digits_only(mobile(n)) = mobile(n)
    IN  IF matches(8) THEN Some(<<SubSeq(part, 1, 8), mobile(8)>>)
        ELSE IF matches(7) THEN Some(<<SubSeq(part, 1, 7), mobile(7)>>)
        ELSE IF matches(6) THEN Some(<<SubSeq(part, 1, 6), mobile(6)>>)
        ELSE None

\* A call of format_phone_for_whatsapp made by parse_multiple_phones.
Formatted(phone, area_code) ==
    Call("parse_multiple_phones", "format_phone_for_whatsapp", <<phone, area_code>>,
         format_phone_for_whatsapp(phone, area_code) # None,
         format_phone_for_whatsapp(phone, area_code))

\* The calls made for a part that holds a space and does not start with '+'.
spaced_part(subparts, long, area_code) ==
    IF /\ Len(subparts) = 2
       /\ Len(digits_only(subparts[1])) \in {4, 5}
       /\ startswith(digits_only(subparts[1]), "0")
       /\ Len(digits_only(subparts[2])) \in 6..7
    THEN << Formatted(digits_only(subparts[1]) \o digits_only(subparts[2]), area_code) >>
    ELSE IF format_phone_for_whatsapp(join(subparts), area_code) # None
    THEN << Formatted(join(subparts), area_code) >>
    ELSE << Formatted(join(subparts), area_code) >>
         \o [i \in DOMAIN long |-> Formatted(long[i], area_code)]

\* One round of the second loop: the calls made for a part.
second_pass(part_stripped, part, area_code) ==
    IF part_stripped = "" THEN <<>>
    ELSE IF embedded_154_match(part) # None
    THEN << Formatted(Val(embedded_154_match(part))[1], area_code),
            Formatted("15" \o Val(embedded_154_match(part))[2], area_code) >>
    ELSE IF keep(part, {" "}) # "" /\ ~startswith(part, "+")
    THEN spaced_part(split_whitespace(part),
                     SelectSeq(split_whitespace(part),
                               LAMBDA subpart : Len(digits_only(subpart)) >= 6),
                     area_code)
    ELSE << Formatted(part, area_code) >>

\* Mutant: a phone is appended whether it was seen before or not.
unseen_repeated(formatted) ==
    LET some == SelectSeq(formatted, LAMBDA f : f.ret # None)
    IN  [k \in DOMAIN some |-> Val(some[k].ret)]

\* The formatted phones in the order of the calls, each one once.
unseen(formatted) ==
    LET first == { i \in DOMAIN formatted :
                     /\ formatted[i].ret # None
                     /\ \A j \in DOMAIN formatted : j < i => formatted[j].ret # formatted[i].ret }
    IN  [k \in 1..Cardinality(first) |-> Val(formatted[Nth(first, k)].ret)]

\* The '/'-separated parts of the input.
parts_of(phone_str) ==
    split(replace(replace(replace(
            replace(replace(replace(strip(phone_str), "\n", " / "), "\r", ""),
                    "\t", " / "),
            " / ", "/"), "/ ", "/"), " /", "/"),
          "/")

\* Returns [phones, formatted]: the list returned and the calls that produced it.
parse_multiple_phones(phone_str, default_area_code) ==
    IF phone_str = "" \/ strip(phone_str) \in {"-", "", "Email", "None"}
    THEN [phones |-> <<>>, formatted |-> <<>>]
    ELSE LET parts == parts_of(phone_str)
             area_code == context_area_code(parts, default_area_code)
             formatted == Flatten([i \in DOMAIN parts |->
                             second_pass(strip(parts[i]),
                                         strip(remove_annotations(strip(parts[i]))),
                                         area_code)])
         IN  [phones |-> unseen(formatted), formatted |-> formatted]

(***************************************************************************)
(* PhoneSpec applies the normalizer to the cells of a phone column: it     *)
(* formats a cell and formats the result again, or parses the cell into a  *)
(* list of phones.                                                         *)
(***************************************************************************)
PhoneStrings ==
    { "+54-9-387-4475398", "+54-387-4509527", "3874875200", "3624-262302",
      "154475398", "4250995", "-", "", " Email ", "None", "+", "387447539",
      "00387-4475398", "0387 15-4475398", "12345", "03445-482402/1664199",
      "4351129/15469 9730", "0343-4890284 / 0343-15467426", "+54-388-4275845",
      "3455-6219867", "4391859-154-046866", "4391859154046866", "03455 422973",
      "482082 154112", "4250995/4250995", "4250995 (1)\n4250995", "abc",
      "0387 4475398 / 4250995", "4250995\t03874250995", "+54 9 387 4475398",
      "038741 23 45", "5493874475398/4475398", "12345678901", "(1) 4250995 / ",
      "4250995 / 0387-4250995", "439185 154 04686", "15447539",
      "4250995 / 4475398 / 4250995", "0387-4475398 / 154475398 (2)" }

AreaCodes == {"387", "3455"}

PhoneInit ==
    /\ pc = "cell"
    /\ state \in [phone_str : PhoneStrings, default_area_code : AreaCodes,
                  formatted : { None }, reformatted : { None }, phones : { <<>> }]
    /\ calls = <<>>
    /\ trace = <<>>

FormatPhone ==
    /\ pc = "cell"
    /\ state' = [state EXCEPT !.formatted =
                    format_phone_for_whatsapp(state.phone_str, state.default_area_code)]
    /\ trace' = Append(trace, "format_phone_for_whatsapp")
    /\ pc' = "formatted"
    /\ UNCHANGED calls

\* The formatted phone is given to format_phone_for_whatsapp once more.
Reformat ==
    /\ pc = "formatted"
    /\ state.formatted # None
    /\ state' = [state EXCEPT !.reformatted =
                    format_phone_for_whatsapp(Val(state.formatted),
                                              state.default_area_code)]
    /\ trace' = Append(trace, "format_phone_for_whatsapp")
    /\ pc' = "END"
    /\ UNCHANGED calls

ParsePhones ==
    /\ pc = "cell"
    /\ \E r \in { parse_multiple_phones(state.phone_str, state.default_area_code) } :
         /\ state' = [state EXCEPT !.phones = r.phones]
         /\ calls' = r.formatted
    /\ trace' = Append(trace, "parse_multiple_phones")
    /\ pc' = "END"

PhoneNext == FormatPhone \/ Reformat \/ ParsePhones

PhoneSpec == PhoneInit /\ [][PhoneNext]_vars

\* The cell was formatted and the result formatted again.
Reformatted == pc = "END" /\ Len(trace) = 2

\* The cell was parsed into a list of phones.
Parsed == pc = "END" /\ trace = <<"parse_multiple_phones">>

(***************************************************************************)
(* C26: normalization is idempotent: whenever normalize(p, ac) is not      *)
(* absent, normalize(normalize(p, ac), ac) = normalize(p, ac).             *)
(***************************************************************************)
NormalizeIdempotent ==
    Reformatted => state.reformatted = state.formatted

\* The characters of a formatted phone after its first four.
DigitsOf(phone) == From(phone, 4)

(***************************************************************************)
(* C27: every non-absent result of normalize is '+549' followed by exactly *)
(* ten digits, so that an input that would give fewer or more digits gives *)
(* absent.                                                                 *)
(***************************************************************************)
CanonicalShape ==
    state.formatted # None =>
      /\ startswith(Val(state.formatted), "+549")
      /\ Len(DigitsOf(Val(state.formatted))) = 10
      /\ \A i \in 1..10 : CharAt(DigitsOf(Val(state.formatted)), i) \in Digits

\* The calls of the parse that returned a phone, by position.
Successful == { i \in DOMAIN calls : calls[i].ok }

\* The position of the first call that returned this phone.
FirstCall(phone) ==
    CHOOSE i \in Successful :
       calls[i].ret = Some(phone) /\ \A j \in Successful : calls[j].ret = Some(phone) => i <= j

(***************************************************************************)
(* C28: split_and_normalize never raises; the sequence it returns has no   *)
(* duplicates, holds exactly the non-absent results of the normalize calls *)
(* it made on the pieces of the input, and lists them in the order of      *)
(* their first occurrence; an input with no recognizable phone gives the   *)
(* empty sequence.                                                         *)
(***************************************************************************)
PhonesDistinctInOrder ==
    /\ pc = "cell" =>
         Len(parse_multiple_phones(state.phone_str, state.default_area_code).phones)
            \in 0..Len(state.phone_str)
    /\ Parsed =>
         /\ \A k, l \in DOMAIN state.phones :
               k # l => state.phones[k] # state.phones[l]
         /\ \A k \in DOMAIN state.phones :
               \E i \in Successful :
                  /\ calls[i].ret = Some(state.phones[k])
                  /\ format_phone_for_whatsapp(calls[i].tag[1], calls[i].tag[2])
                        = Some(state.phones[k])
         /\ \A i \in Successful :
               \E k \in DOMAIN state.phones : calls[i].ret = Some(state.phones[k])
         /\ \A k, l \in DOMAIN state.phones :
               k < l => FirstCall(state.phones[k]) < FirstCall(state.phones[l])
         /\ Successful = {} => state.phones = <<>>

\* Three pieces gave a phone, the third a phone that was already in the list.
PhonesDistinctWitness ==
    /\ Parsed
    /\ Cardinality(Successful) = 3
    /\ Len(state.phones) = 2
    /\ state.phones[1] # state.phones[2]
    /\ calls[3].ret = Some(state.phones[1])

(***************************************************************************)
(* Further claims on the runs of the Intake Pipeline (Spec).               *)
(***************************************************************************)
\* The node made every one of its n collaborator calls and none raised.
NodeSucceeded(node, n) == Len(NodeCalls(node)) = n /\ AllOk(NodeCalls(node))

\* The successful create_job calls of the run.
JobsCreated == SelectSeq(calls, LAMBDA c : c.fn = "create_job" /\ c.ok)

(***************************************************************************)
(* C35: create_job is invoked at most once in a run, and only after        *)
(* transcribe and extract both succeeded with an overall confidence of at  *)
(* least 0.85; a run with a failed transcription, a failed extraction or a *)
(* lower confidence never creates a job.                                   *)
(***************************************************************************)
CreateJobGuarded ==
    /\ Len(CallsTo("create_job")) <= 1
    /\ CallsTo("create_job") # <<>> =>
          /\ SubSeq(trace, 1, 3) = <<"transcribe", "translate", "extract">>
          /\ trace[Len(trace)] = "auto_create"
          /\ NodeSucceeded("transcribe", 3)
          /\ AllOk(ExtractionCalls) /\ Len(ExtractionCalls) = 1
          /\ NodeSucceeded("extract", 2)
          /\ state.transcription # None
          /\ state.extraction # None
          /\ Val(state.extraction).overall_confidence >= CONFIDENCE_AUTO_CREATE_THRESHOLD
          /\ ConfidenceIn(CONFIDENCE_AUTO_CREATE_THRESHOLD, 100)
          /\ ExtractionCalls[1].ret # None
          /\ Val(ExtractionCalls[1].ret) >= 85

\* A job was created for an extraction of confidence exactly 0.85.
CreateJobGuardedWitness ==
    /\ Ended
    /\ Len(JobsCreated) = 1
    /\ state.confidence = Some(85)
    /\ NodeSucceeded("transcribe", 3)

(***************************************************************************)
(* C36: every run whose terminal status is human_review has invoked        *)
(* add_to_review_queue for its message, the runs that reach that status    *)
(* through a failure inside auto_create or confirm included.               *)
(***************************************************************************)
HumanReviewIsQueued ==
    Ended /\ state.status = "human_review" =>
       \E i \in DOMAIN calls : calls[i].fn = "add_to_review_queue"

(***************************************************************************)
(* C37: whenever create_job has returned in a run, the terminal state has  *)
(* status completed and job_id equal to the id of the created job, even if *)
(* the outbound send or the status update that follows fails.              *)
(***************************************************************************)
CreatedJobReported ==
    Ended /\ JobsCreated # <<>> =>
       /\ state.status = "completed"
       /\ state.job_id = JobsCreated[1].ret

\* The confirmation reached the customer: the send of the confirm node returned.
ConfirmationDelivered ==
    \E i \in DOMAIN calls :
       /\ calls[i].node = "confirm"
       /\ calls[i].fn = "send_message"
       /\ calls[i].tag = "confirmation"
       /\ calls[i].ok

(***************************************************************************)
(* C38: in the terminal state of every run confirmation_sent is true if    *)
(* and only if the confirmation message was successfully sent to the       *)
(* customer during the run.                                                *)
(***************************************************************************)
ConfirmationSentExact ==
    Ended => (state.confirmation_sent <=> ConfirmationDelivered)

\* The statuses written to the message, in the order of the writes that went through.
PersistedStatuses ==
    LET writes == SelectSeq(calls, LAMBDA c : c.fn = "update_message_status" /\ c.ok)
    IN  [i \in DOMAIN writes |-> writes[i].tag]

FinalStatuses ==
    {"awaiting_confirmation", "job_created", "queued_for_review", "processing_failed"}

\* The write orders the statement allows: transcribed, extracted, one final status,
\* any of them left out.
StatusOrders ==
    LET full == { <<"transcribed", "extracted", f>> : f \in FinalStatuses }
        dropped(s, k) == [i \in 1..(Len(s) - 1) |-> IF i < k THEN s[i] ELSE s[i + 1]]
        once == full \cup { dropped(s, k) : s \in full, k \in 1..3 }
        twice == once \cup { dropped(s, k) : s \in { t \in once : Len(t) = 2 }, k \in 1..2 }
    IN  twice \cup { <<>> }

Persisted(status) == \E i \in DOMAIN PersistedStatuses : PersistedStatuses[i] = status

(***************************************************************************)
(* C40: within one run the message statuses are persisted in the order     *)
(* transcribed, extracted, then at most one of awaiting_confirmation,      *)
(* job_created, queued_for_review, processing_failed, each at most once;   *)
(* job_created goes only with terminal status completed,                   *)
(* awaiting_confirmation only with confirming, queued_for_review only with *)
(* human_review and processing_failed only with failed.                    *)
(***************************************************************************)
StatusWritesOrdered ==
    /\ PersistedStatuses \in StatusOrders
    /\ pc \in {"END", "RAISED"} =>
          /\ Persisted("job_created") => state.status = "completed"
          /\ Persisted("awaiting_confirmation") => state.status = "confirming"
          /\ Persisted("queued_for_review") => state.status = "human_review"
          /\ Persisted("processing_failed") => state.status = "failed"

\* A run wrote transcribed and then, the write of extracted having failed,
\* processing_failed.
StatusWritesWitness ==
    /\ Ended
    /\ PersistedStatuses = <<"transcribed", "processing_failed">>
    /\ Attempted("extract", "update_message_status")
    /\ state.status = "failed"

\* The lines of the draft that are flagged for review.
FlaggedLines == { i \in DOMAIN LineItems : LineItems[i].needs_review }

(***************************************************************************)
(* C39: in every emitted draft each line item with needs_review true has a *)
(* review_reason and contributes an entry to review_notes, so that         *)
(* requires_review implies a non-empty review_notes, for parts and for     *)
(* services in every confidence tier.                                      *)
(***************************************************************************)
ReviewNotesComplete ==
    Emitted =>
      /\ \A i \in FlaggedLines : LineItems[i].review_reason # None
      /\ Len(Draft.review_notes) = Cardinality(FlaggedLines)
      /\ Draft.requires_review => Draft.review_notes # <<>>

(***************************************************************************)
(* format_confirmation_message (app/integrations/openai_client.py), the    *)
(* text the confirm node sends.  ConfirmationSpec applies it to            *)
(* extractions on the same variables.  Texts are written without accents   *)
(* and inverted marks, an emoji as its name in brackets.                   *)
(***************************************************************************)
service_names ==
    [refrigeracion |-> "Refrigeracion", lavarropas |-> "Lavarropas",
     aire_acondicionado |-> "Aire Acondicionado", electricidad |-> "Electricidad",
     plomeria |-> "Plomeria", gasista |-> "Gasista", cerrajeria |-> "Cerrajeria",
     otros |-> "Otros"]

\* str.capitalize() on the urgencies.
capitalize(s) ==
    CASE s = "normal" -> "Normal"
      [] s = "urgente" -> "Urgente"
      [] s = "emergencia" -> "Emergencia"
      [] s = "ALTA" -> "Alta"
      [] OTHER -> s

\* sep.join(ss)
join_with(sep, ss) ==
    LET f[i \in 0..Len(ss)] ==
          IF i = 0 THEN "" ELSE IF i = 1 THEN ss[1] ELSE f[i - 1] \o sep \o ss[i]
    IN  f[Len(ss)]

\* One optional line of the message.
line_if(condition, text) == IF condition THEN <<text>> ELSE <<>>

\* Mutant: the urgency is shown whenever it is set, and a model without a brand
\* is shown as the appliance.
format_confirmation_message_verbose(extraction) ==
    join_with("\n",
       <<"[memo] *Resumen de tu pedido:*\n">>
       \o line_if(Truthy(extraction.title),
                  "[check] *Servicio:* " \o Val(extraction.title))
       \o line_if(Truthy(extraction.service_type),
                  "[wrench] *Tipo:* "
                  \o (IF Val(extraction.service_type) \in DOMAIN service_names
                      THEN service_names[Val(extraction.service_type)]
                      ELSE Val(extraction.service_type)))
       \o line_if(Truthy(extraction.appliance_brand) \/ Truthy(extraction.appliance_model),
                  "[phone] *Equipo:* "
                  \o (IF Truthy(extraction.appliance_brand)
                      THEN Val(extraction.appliance_brand) ELSE "")
                  \o (IF Truthy(extraction.appliance_model)
                      THEN " " \o Val(extraction.appliance_model) ELSE ""))
       \o line_if(Truthy(extraction.problem_description),
                  "[x] *Problema:* " \o Val(extraction.problem_description))
       \o line_if(Truthy(extraction.address),
                  "[pin] *Direccion:* " \o Val(extraction.address)
                  \o (IF Truthy(extraction.city)
                      THEN ", " \o Val(extraction.city) ELSE "")
                  \o (IF Truthy(extraction.province)
                      THEN " (" \o Val(extraction.province) \o ")" ELSE ""))
       \o line_if(Truthy(extraction.preferred_date) \/ Truthy(extraction.preferred_time),
                  "[calendar] *Cuando:* "
                  \o join_with(" - ",
                        line_if(Truthy(extraction.preferred_date),
                                Val(extraction.preferred_date))
                        \o line_if(Truthy(extraction.preferred_time),
                                   Val(extraction.preferred_time))))
       \o line_if(Truthy(extraction.urgency),
                  (IF Val(extraction.urgency) = "emergencia"
                   THEN "[red]" ELSE "[yellow]")
                  \o " *Urgencia:* " \o capitalize(Val(extraction.urgency)))
       \o <<"\nEs correcto? Responde *Si* para confirmar o contame que debemos corregir.">>)

format_confirmation_message(extraction) ==
    join_with("\n",
       <<"[memo] *Resumen de tu pedido:*\n">>
       \o line_if(Truthy(extraction.title),
                  "[check] *Servicio:* " \o Val(extraction.title))
       \o line_if(Truthy(extraction.service_type),
                  "[wrench] *Tipo:* "
                  \o (IF Val(extraction.service_type) \in DOMAIN service_names
                      THEN service_names[Val(extraction.service_type)]
                      ELSE Val(extraction.service_type)))
       \o line_if(Truthy(extraction.appliance_brand),
                  "[phone] *Equipo:* " \o Val(extraction.appliance_brand)
                  \o (IF Truthy(extraction.appliance_model)
                      THEN " " \o Val(extraction.appliance_model) ELSE ""))
       \o line_if(Truthy(extraction.problem_description),
                  "[x] *Problema:* " \o Val(extraction.problem_description))
       \o line_if(Truthy(extraction.address),
                  "[pin] *Direccion:* " \o Val(extraction.address)
                  \o (IF Truthy(extraction.city)
                      THEN ", " \o Val(extraction.city) ELSE "")
                  \o (IF Truthy(extraction.province)
                      THEN " (" \o Val(extraction.province) \o ")" ELSE ""))
       \o line_if(Truthy(extraction.preferred_date) \/ Truthy(extraction.preferred_time),
                  "[calendar] *Cuando:* "
                  \o join_with(" - ",
                        line_if(Truthy(extraction.preferred_date),
                                Val(extraction.preferred_date))
                        \o line_if(Truthy(extraction.preferred_time),
                                   Val(extraction.preferred_time))))
       \o line_if(Truthy(extraction.urgency) /\ Val(extraction.urgency) # "normal",
                  (IF Val(extraction.urgency) = "emergencia"
                   THEN "[red]" ELSE "[yellow]")
                  \o " *Urgencia:* " \o capitalize(Val(extraction.urgency)))
       \o <<"\nEs correcto? Responde *Si* para confirmar o contame que debemos corregir.">>)

\* The extractions the message is formatted for: each field absent or set, the
\* title also empty, the service type also one that has no label.
ConfirmationExtractions ==
    [title : {None, Some(""), Some("Reparacion de heladera")},
     service_type : {None, Some("refrigeracion"), Some("aire_acondicionado"),
                     Some("heladeras")},
     appliance_brand : {None, Some("Samsung")},
     appliance_model : {None, Some("RT38")},
     problem_description : {None, Some("No enfria")},
     address : {None, Some("Av. Belgrano 1200")},
     city : {None, Some("Salta")},
     province : {None, Some("Jujuy")},
     preferred_date : {None, Some("manana")},
     preferred_time : {None, Some("por la tarde")},
     urgency : {None, Some("normal"), Some("urgente"), Some("emergencia")}]

ConfirmationInit ==
    /\ pc = "format_confirmation_message"
    /\ \E extraction \in ConfirmationExtractions :
         state = [extraction |-> extraction, message |-> None]
    /\ calls = <<>>
    /\ trace = <<>>

FormatConfirmation ==
    /\ pc = "format_confirmation_message"
    /\ state' = [state EXCEPT !.message =
                    Some(format_confirmation_message(state.extraction))]
    /\ calls' = calls
    /\ trace' = Append(trace, "format_confirmation_message")
    /\ pc' = "END"

ConfirmationNext == FormatConfirmation

ConfirmationSpec == ConfirmationInit /\ [][ConfirmationNext]_vars

\* The message that was formatted, and its lines.
Formatted_message == Val(state.message)

MessageLines == split(Formatted_message, "\n")

\* The positions of the lines that start with the label.
LinesOf(body, label) == { i \in DOMAIN body : startswith(body[i], label) }

\* The lines have exactly one with the label, and it reads label + text.
HasLine(body, label, text) ==
    /\ Cardinality(LinesOf(body, label)) = 1
    /\ \A i \in LinesOf(body, label) : body[i] = label \o text

Populated(field) == state.extraction[field] # None /\ Val(state.extraction[field]) # ""

FieldLabels ==
    {"[check] *Servicio:* ", "[wrench] *Tipo:* ", "[phone] *Equipo:* ",
     "[x] *Problema:* ", "[pin] *Direccion:* ", "[calendar] *Cuando:* ",
     "[red] *Urgencia:* ", "[yellow] *Urgencia:* "}

\* What the lines between header and closing prompt say of the extraction's fields.
FieldLines(body) ==
    /\ \A i \in DOMAIN body : \E label \in FieldLabels : startswith(body[i], label)
    /\ IF Populated("title")
       THEN HasLine(body, "[check] *Servicio:* ", Val(state.extraction.title))
       ELSE LinesOf(body, "[check] *Servicio:* ") = {}
    /\ IF Populated("service_type")
       THEN HasLine(body, "[wrench] *Tipo:* ",
                    CASE state.extraction.service_type = Some("refrigeracion") ->
                           "Refrigeracion"
                      [] state.extraction.service_type = Some("aire_acondicionado") ->
                           "Aire Acondicionado"
                      [] OTHER -> Val(state.extraction.service_type))
       ELSE LinesOf(body, "[wrench] *Tipo:* ") = {}
    /\ IF Populated("appliance_brand")
       THEN HasLine(body, "[phone] *Equipo:* ",
                    IF Populated("appliance_model")
                    THEN Val(state.extraction.appliance_brand) \o " "
                            \o Val(state.extraction.appliance_model)
                    ELSE Val(state.extraction.appliance_brand))
       ELSE LinesOf(body, "[phone] *Equipo:* ") = {}
    /\ IF Populated("problem_description")
       THEN HasLine(body, "[x] *Problema:* ", Val(state.extraction.problem_description))
       ELSE LinesOf(body, "[x] *Problema:* ") = {}
    /\ IF Populated("address")
       THEN HasLine(body, "[pin] *Direccion:* ",
                    Val(state.extraction.address)
                    \o (IF Populated("city")
                        THEN ", " \o Val(state.extraction.city) ELSE "")
                    \o (IF Populated("province")
                        THEN " (" \o Val(state.extraction.province) \o ")" ELSE ""))
       ELSE LinesOf(body, "[pin] *Direccion:* ") = {}
    /\ IF Populated("preferred_date") \/ Populated("preferred_time")
       THEN /\ Cardinality(LinesOf(body, "[calendar] *Cuando:* ")) = 1
            /\ Populated("preferred_date") /\ ~Populated("preferred_time") =>
                  HasLine(body, "[calendar] *Cuando:* ",
                          Val(state.extraction.preferred_date))
            /\ Populated("preferred_time") /\ ~Populated("preferred_date") =>
                  HasLine(body, "[calendar] *Cuando:* ",
                          Val(state.extraction.preferred_time))
       ELSE LinesOf(body, "[calendar] *Cuando:* ") = {}
    /\ IF Populated("urgency") /\ state.extraction.urgency # Some("normal")
       THEN Cardinality(LinesOf(body, "[red] *Urgencia:* ")
                        \cup LinesOf(body, "[yellow] *Urgencia:* ")) = 1
       ELSE LinesOf(body, "[red] *Urgencia:* ")
               \cup LinesOf(body, "[yellow] *Urgencia:* ") = {}

(***************************************************************************)
(* C34: the confirmation message starts with the header and ends with the  *)
(* closing prompt that asks "Es correcto?"; between them it has a line for *)
(* a field only if the field is populated: the title, the service type as  *)
(* its human label, the brand (with the model when both are present), the  *)
(* problem description, the address (with city and province), the          *)
(* preferred date and time, and the urgency only when it is not normal.    *)
(***************************************************************************)
ConfirmationLines ==
    state.message # None =>
      \A lines \in { MessageLines } :
         /\ Len(lines) >= 4
         /\ lines[1] = "[memo] *Resumen de tu pedido:*"
         /\ lines[2] = ""
         /\ lines[Len(lines) - 1] = ""
         /\ startswith(lines[Len(lines)], "Es correcto?")
         /\ FieldLines(SubSeq(lines, 3, Len(lines) - 2))

\* A message with the type label, the brand with its model and the address with its
\* city, without a title line (the title is empty) or an urgency line (normal).
ConfirmationLinesWitness ==
    /\ state.message # None
    /\ state.extraction.title = Some("")
    /\ state.extraction.urgency = Some("normal")
    /\ SubSeq(MessageLines, 3, Len(MessageLines) - 2) =
                   << "[wrench] *Tipo:* Refrigeracion",
                      "[phone] *Equipo:* Samsung RT38",
                      "[pin] *Direccion:* Av. Belgrano 1200, Salta" >>

(***************************************************************************)
(* Two runs of the Intake Pipeline in one process (app/api/voice.py calls  *)
(* voice_workflow.ainvoke once per request).  ConcurrentSpec interleaves   *)
(* them at their suspension points, the awaits of the collaborator calls:  *)
(* a node starts on the state record of its run, makes its calls one at a  *)
(* time, and returns.  Here pc, state, calls and trace hold one entry per  *)
(* run.                                                                    *)
(***************************************************************************)
Runs == {1, 2}

\* The node function and the edge that build_voice_workflow registers for a label.
run_node(node, st, o) ==
    CASE node = "transcribe" -> transcribe_node(st, o)
      [] node = "translate" -> translate_node(st, o)
      [] node = "extract" -> extract_node(st, o)
      [] node = "confirm" -> send_confirmation_node(st, o)
      [] node = "auto_create" -> auto_create_job_node(st, o)
      [] node = "human_review" -> human_review_node(st, o)
      [] node = "handle_failure" -> handle_failure_node(st, o)

edge_of(node, st) ==
    CASE node = "transcribe" -> transcribe_edge(st)
      [] node = "translate" -> translate_edge(st)
      [] node = "extract" -> extract_edge(st)
      [] OTHER -> terminal_edge(st)

\* Where a run goes after the node returned r.
next_node(node, r) ==
    IF r.raised \/ edge_of(node, r.st) \notin Nodes \cup {"END"} THEN "RAISED"
    ELSE edge_of(node, r.st)

\* The collaborator responses the two runs may see, per node.
ConcurrentOutcomes(node) ==
    CASE node = "transcribe" -> [fail : {0, 2}, text : {"hello there"}]
      [] node = "translate" ->
           [detect : {"es", "en"}, translation : {Some("hola traducido")},
            http_ok : {TRUE}]
      [] node = "extract" ->
           [llm : [kind : {"object"}, title : {Some("Reparacion")},
                   confidence : {Some(90), Some(60), Some(30)}]
                  \cup [kind : {"api_error"}, title : {None}, confidence : {None}],
            update_ok : {TRUE}]
      [] node = "confirm" -> [fail : {0, 2}, id : {Some(1)}]
      [] node = "auto_create" -> [fail : {0, 2}, id : {Some(1)}]
      [] node = "human_review" -> [fail : {0, 1}]
      [] node = "handle_failure" -> [fail : {0, 2}]

\* The requests of the two runs: the same message fields, their own policy.
ConcurrentInitialStates ==
    { st \in InitialStates :
         /\ st.workflow_permissions \in {None, Some([translateMessages |-> FALSE])}
         /\ st.business_languages = Some({"es"}) }

\* Mutant: one state record for the process, which the nodes of both runs read.
run_state_shared(states, r) == states[1].st

\* The state record a node of run r is called with: the one of its own run.
run_state(states, r) == states[r].st

\* A run between two nodes has no result pending.
Idle(st) == [st |-> st, result |-> None, made |-> 0]

ConcurrentInit ==
    /\ pc = [r \in Runs |-> EntryPoint]
    /\ \E s1 \in ConcurrentInitialStates, s2 \in ConcurrentInitialStates :
         state = [r \in Runs |->
                    [initial |-> IF r = 1 THEN s1 ELSE s2, outcomes |-> <<>>]
                    @@ Idle(IF r = 1 THEN s1 ELSE s2)]
    /\ calls = [r \in Runs |-> <<>>]
    /\ trace = [r \in Runs |-> <<>>]

\* The node of run r is called and runs up to its first await; the responses its
\* collaborators are going to give are o.
Begin(r) ==
    /\ pc[r] \in Nodes
    /\ state[r].result = None
    /\ \E o \in ConcurrentOutcomes(pc[r]) :
         state' = [state EXCEPT
                     ![r].result = Some(run_node(pc[r], run_state(state, r), o)),
                     ![r].outcomes = Append(@, o),
                     ![r].made = 0]
    /\ UNCHANGED <<pc, calls, trace>>

\* The next collaborator call of the node of run r completes.
Await(r) ==
    /\ state[r].result # None
    /\ state[r].made < Len(Val(state[r].result).calls)
    /\ calls' = [calls EXCEPT ![r] = Append(@, Val(state[r].result).calls[state[r].made + 1])]
    /\ state' = [state EXCEPT ![r].made = @ + 1]
    /\ UNCHANGED <<pc, trace>>

\* The node of run r returns and the executor follows its edge.
Return(r) ==
    /\ state[r].result # None
    /\ state[r].made = Len(Val(state[r].result).calls)
    /\ state' = [state EXCEPT ![r].st = Val(state[r].result).st,
                              ![r].result = None,
                              ![r].made = 0]
    /\ trace' = [trace EXCEPT ![r] = Append(@, pc[r])]
    /\ pc' = [pc EXCEPT ![r] = next_node(pc[r], Val(state[r].result))]
    /\ UNCHANGED calls

ConcurrentNext == \E r \in Runs : Begin(r) \/ Await(r) \/ Return(r)

ConcurrentSpec == ConcurrentInit /\ [][ConcurrentNext]_vars

\* A run executing alone: node after node on its own state, with the responses os.
RECURSIVE Alone(_, _)
Alone(run, os) ==
    IF os = <<>> \/ run.pc \notin Nodes THEN run
    ELSE LET r == run_node(run.pc, run.st, Head(os))
         IN  Alone([pc |-> next_node(run.pc, r), st |-> r.st,
                    calls |-> run.calls \o r.calls,
                    trace |-> Append(run.trace, run.pc)],
                   Tail(os))

AloneFrom(initial, os) ==
    Alone([pc |-> EntryPoint, st |-> initial, calls |-> <<>>, trace |-> <<>>], os)

\* The responses of the nodes of run r that have returned.
Returned_outcomes(r) ==
    IF state[r].result = None THEN state[r].outcomes
    ELSE SubSeq(state[r].outcomes, 1, Len(state[r].outcomes) - 1)

\* Run r is where it would be had it executed alone with the same responses.
AsAlone(r) ==
    \E alone \in { AloneFrom(state[r].initial, Returned_outcomes(r)) } :
       /\ pc[r] = alone.pc
       /\ trace[r] = alone.trace
       /\ state[r].st = alone.st
       /\ SubSeq(calls[r], 1, Len(alone.calls)) = alone.calls
       /\ state[r].result = None => calls[r] = alone.calls
       /\ state[r].result # None =>
             \E whole \in { AloneFrom(state[r].initial, state[r].outcomes) } :
                /\ Val(state[r].result).st = whole.st
                /\ SubSeq(whole.calls, 1, Len(calls[r])) = calls[r]

====
